---- MODULE Spec2Model ----
(***************************************************************************)
(* Verification model of the resilient tool-client runtime                 *)
(* (ai-agent/app/services): the CircuitBreaker of error_management.py, the *)
(* retrying execution path of mcp_universal_client.py and the              *)
(* IntelligentCache of performance_manager.py.                             *)
(*                                                                         *)
(* Time is the value time.time() returns, counted in whole seconds.        *)
(***************************************************************************)
EXTENDS Integers, Sequences, FiniteSets, TLC

(***************************************************************************)
(* Bounds of the model                                                     *)
(***************************************************************************)
MaxTime == 3            \* the clock runs from 0 to MaxTime
MaxThreshold == 2       \* failure_threshold, success_threshold in 1..MaxThreshold
MaxTimeout == 2         \* timeout in 1..MaxTimeout
MaxFailureCount == 4    \* record_failure is not called beyond this failure_count
MaxCacheTime == 2       \* the clock of the cache specification runs from 0 to MaxCacheTime

VARIABLES
    now,              \* time.time()
    cbCfg,            \* CircuitBreaker.failure_threshold, success_threshold, timeout
    cb,               \* CircuitBreaker.state, failure_count, success_count, last_*_time
    lastOp,           \* name of the operation that ran last
    lastAllow,        \* return value of the last should_allow_request call
    probes,           \* requests admitted since open->half_open with no outcome recorded (2 = two or more)
    consecFailures,   \* record_failure calls in a row, nothing else called on the breaker in between
    prevCb,           \* state and success_count of the breaker before the last operation
    server_health,    \* UniversalMCPClient._server_health
    tools_cache,      \* servers s with a "s:tool" key in UniversalMCPClient._tools_cache
    exec,             \* position of the execute_tool_with_retry call in flight
    response,         \* outcome of the last finished execute_tool_with_retry call
    cache,            \* IntelligentCache.cache: key -> CacheItem
    access_order,     \* IntelligentCache.access_order, least recently used first
    size_bytes,       \* IntelligentCache._size_bytes
    cacheCall,        \* arguments and return value of the last cache call; stale: get met an expired item
    evicted,          \* items _evict_lru removed during the last set, in order
    _pool,            \* ConnectionPool._pool, the idle connections
    _used_connections, \* ConnectionPool._used_connections
    _closed,          \* ConnectionPool._closed
    _connection_factory, \* ConnectionPool._connection_factory is set
    _lock,            \* holder of ConnectionPool._lock: a caller, "close", or "" when free
    created,          \* connections the factory has made
    callers,          \* where each caller of the pool stands: the connection it holds (conn) and
                      \* the one it passed to release last (last)
    wcpRet,           \* set by the step in which with_connection_pool exits: its connection,
                      \* how the operation ended, the release calls it made
    server_tools,     \* ToolRegistry.server_tools: server -> tool names
    server_order,     \* the keys of ToolRegistry.server_tools in the order of the dict
    performance_metrics, \* ToolRegistry.performance_metrics, keyed by <<server, tool>>
    reg,              \* the execute_with_fallback call in flight: its attempt under way (tool,
                      \* server, idx: position in the chain, 0 for the primary) and the
                      \* response of the primary tool
    regRet,           \* set by the step in which execute_with_fallback returns: its response,
                      \* the response of its last attempt and that attempt's place in the chain
    tracked,          \* one ToolPerformance entry, updated by _execute_tool_with_tracking
    latencies,        \* the executions recorded for that entry: the sum of their latencies and their number
    error_message,    \* the error text handle_failure was last given, word by word
    failure_type,     \* what _classify_failure returned for it
    raw_tool,         \* the raw tool normalize_tool_schema was last given
    schema,           \* what normalize_tool_schema did with it: the StandardizedSchema, or raised
    target_server,    \* the server of the tool: its retry_count, and whether _select_server_for_tool finds it
    tool_schema,      \* the StandardizedSchema of the tool in _tools_cache: parameters, required
    call,             \* the execute_tool_with_retry call in flight: its params, the arguments of its
                      \* transport invocation, its attempt, and what it has done so far
    callRet,          \* set by the step in which execute_tool_with_retry exits: its response or the
                      \* exception that left it, with the params and the counts of the call
    server_enabled,   \* MCPServerConfig.enabled of every server of a client
    capabilities,     \* UniversalMCPClient.capabilities: per server nothing, or the tools discovered
    discovery_health, \* UniversalMCPClient._server_health: per server unset, True or False
    discovery,        \* discover_all_servers: where it is, and the task of every server
    contacted,        \* the servers a connection was opened to since discover_all_servers began
    discRet,          \* set by the step in which discover_all_servers returns: the dict returned
    _batch_queues,    \* PerformanceManager._batch_queues: per batch key the items waiting, oldest first
    _batch_timers,    \* PerformanceManager._batch_timers: per batch key no task, or where its task is
    processing,       \* per batch key the batch _process_batch has handed to the processor, with
                      \* the lock of the key held by whoever runs it
    futures,          \* per submitter the future batched_operation awaits, with key and order
    batches,          \* the batches whose processor is over, in order, with what came of them
    circuit_breakers, \* RecoveryManager.circuit_breakers: per failure type of the tool nothing, or
                      \* the dict of the key "tool:type"
    recovery_history, \* RecoveryManager.recovery_history: per failure type the number of records
    recRet,           \* set by the step in which handle_failure returns: the RecoveryAction, with
                      \* the failure type and attempt_count of the call
    pm_metrics,       \* PerformanceManager.metrics: the operation names that have an entry
    opRet             \* set by the step in which cached_operation returns or raises

cbVars == <<cbCfg, cb, lastAllow, probes, consecFailures, prevCb>>
execVars == <<server_health, tools_cache, exec, response>>
cacheVars == <<cache, access_order, size_bytes, cacheCall, evicted>>
poolVars == <<_pool, _used_connections, _closed, _connection_factory, _lock, created, callers, wcpRet>>
regVars == <<server_tools, server_order, performance_metrics, reg, regRet>>
trackVars == <<tracked, latencies>>
coreVars == <<cbVars, execVars, cacheVars, poolVars, regVars>>
classifyVars == <<error_message, failure_type>>
schemaVars == <<raw_tool, schema>>
callVars == <<target_server, tool_schema, call, callRet>>
discVars == <<server_enabled, capabilities, discovery_health, discovery, contacted, discRet>>
midVars == <<trackVars, classifyVars, schemaVars, callVars, discVars>>
batchVars == <<_batch_queues, _batch_timers, processing, futures, batches>>
recVars == <<circuit_breakers, recovery_history, recRet>>
opVars == <<pm_metrics, opRet>>
lateVars == <<batchVars, recVars, opVars>>
moreVars == <<midVars, lateVars>>

(***************************************************************************)
(* CircuitBreaker (error_management.py)                                    *)
(***************************************************************************)
CircuitState == {"closed", "open", "half_open"}

\* dataclass defaults of a freshly constructed CircuitBreaker
CircuitBreakerInit ==
    [state |-> "closed", failure_count |-> 0, success_count |-> 0,
     last_failure_time |-> 0, last_success_time |-> 0]

Max(a, b) == IF a >= b THEN a ELSE b

\* should_allow_request with the timeout test weakened to >=
should_allow_request_geq(b, cfg, t) ==
    IF b.state = "closed" THEN [cb |-> b, ret |-> TRUE]
    ELSE IF b.state = "open" THEN
        IF t - b.last_failure_time >= cfg.timeout
        THEN [cb |-> [b EXCEPT !.state = "half_open"], ret |-> TRUE]
        ELSE [cb |-> b, ret |-> FALSE]
    ELSE [cb |-> b, ret |-> TRUE]

\* CircuitBreaker.should_allow_request: the breaker after the call and the value returned
should_allow_request(b, cfg, t) ==
    IF b.state = "closed" THEN [cb |-> b, ret |-> TRUE]
    ELSE IF b.state = "open" THEN
        IF t - b.last_failure_time > cfg.timeout
        THEN [cb |-> [b EXCEPT !.state = "half_open"], ret |-> TRUE]
        ELSE [cb |-> b, ret |-> FALSE]
    ELSE [cb |-> b, ret |-> TRUE]

\* record_success that closes one success late (> instead of >=)
record_success_late(b, cfg, t) ==
    LET b1 == [b EXCEPT !.last_success_time = t] IN
    IF b1.state = "half_open" THEN
        LET b2 == [b1 EXCEPT !.success_count = @ + 1] IN
        IF b2.success_count > cfg.success_threshold
        THEN [b2 EXCEPT !.state = "closed", !.failure_count = 0, !.success_count = 0]
        ELSE b2
    ELSE IF b1.state = "closed" THEN
        [b1 EXCEPT !.failure_count = Max(0, @ - 1)]
    ELSE b1

\* CircuitBreaker.record_success
record_success(b, cfg, t) ==
    LET b1 == [b EXCEPT !.last_success_time = t] IN
    IF b1.state = "half_open" THEN
        LET b2 == [b1 EXCEPT !.success_count = @ + 1] IN
        IF b2.success_count >= cfg.success_threshold
        THEN [b2 EXCEPT !.state = "closed", !.failure_count = 0, !.success_count = 0]
        ELSE b2
    ELSE IF b1.state = "closed" THEN
        [b1 EXCEPT !.failure_count = Max(0, @ - 1)]
    ELSE b1

\* record_failure that opens one failure late (> instead of >=)
record_failure_late(b, cfg, t) ==
    LET b1 == [b EXCEPT !.last_failure_time = t, !.failure_count = @ + 1] IN
    IF b1.state = "closed" THEN
        IF b1.failure_count > cfg.failure_threshold
        THEN [b1 EXCEPT !.state = "open"]
        ELSE b1
    ELSE IF b1.state = "half_open" THEN
        [b1 EXCEPT !.state = "open", !.success_count = 0]
    ELSE b1

\* record_failure that keeps success_count when a half-open breaker re-opens
record_failure_keep(b, cfg, t) ==
    LET b1 == [b EXCEPT !.last_failure_time = t, !.failure_count = @ + 1] IN
    IF b1.state = "closed" THEN
        IF b1.failure_count >= cfg.failure_threshold
        THEN [b1 EXCEPT !.state = "open"]
        ELSE b1
    ELSE IF b1.state = "half_open" THEN
        [b1 EXCEPT !.state = "open"]
    ELSE b1

\* CircuitBreaker.record_failure
record_failure(b, cfg, t) ==
    LET b1 == [b EXCEPT !.last_failure_time = t, !.failure_count = @ + 1] IN
    IF b1.state = "closed" THEN
        IF b1.failure_count >= cfg.failure_threshold
        THEN [b1 EXCEPT !.state = "open"]
        ELSE b1
    ELSE IF b1.state = "half_open" THEN
        [b1 EXCEPT !.state = "open", !.success_count = 0]
    ELSE b1

\* the breaker is open and its timeout has not elapsed: should_allow_request would answer False
BreakerRejects(b, cfg, t) ==
    b.state = "open" /\ ~(t - b.last_failure_time > cfg.timeout)

\* what prevCb keeps of a breaker
Prev(b) == [state |-> b.state, success_count |-> b.success_count]

\* time.time() advances
Tick ==
    /\ now < MaxTime
    /\ now' = now + 1
    /\ lastOp' = "tick"
    /\ prevCb' = Prev(cb)
    /\ UNCHANGED <<cbCfg, cb, lastAllow, probes, consecFailures, execVars, cacheVars, poolVars, regVars, moreVars>>

\* ErrorManagementSystem.should_allow_request(service) for the registered breaker
ShouldAllowRequest ==
    LET r == should_allow_request(cb, cbCfg, now) IN
    /\ cb' = r.cb
    /\ lastAllow' = r.ret
    /\ probes' = IF cb.state = "open" /\ r.ret THEN 1
                 ELSE IF cb.state = "half_open" /\ r.ret
                      THEN (IF probes < 2 THEN probes + 1 ELSE 2)
                 ELSE probes
    /\ consecFailures' = 0
    /\ lastOp' = "should_allow_request"
    /\ prevCb' = Prev(cb)
    /\ UNCHANGED <<now, cbCfg, execVars, cacheVars, poolVars, regVars, moreVars>>

\* ErrorManagementSystem.record_success(service)
RecordSuccess ==
    /\ cb' = record_success(cb, cbCfg, now)
    /\ probes' = 0
    /\ consecFailures' = 0
    /\ lastOp' = "record_success"
    /\ prevCb' = Prev(cb)
    /\ UNCHANGED <<now, cbCfg, lastAllow, execVars, cacheVars, poolVars, regVars, moreVars>>

\* ErrorManagementSystem.handle_error(error, {"service": service})
RecordFailure ==
    /\ cb.failure_count < MaxFailureCount
    /\ cb' = record_failure(cb, cbCfg, now)
    /\ probes' = 0
    /\ consecFailures' = consecFailures + 1
    /\ lastOp' = "record_failure"
    /\ prevCb' = Prev(cb)
    /\ UNCHANGED <<now, cbCfg, lastAllow, execVars, cacheVars, poolVars, regVars, moreVars>>

(***************************************************************************)
(* Execution path (mcp_universal_client.py)                                *)
(***************************************************************************)
None == "None"

\* self.servers: MCPServerConfig records, in list order
servers ==
    << [name |-> "s1", priority |-> 1, retry_count |-> 2, enabled |-> TRUE],
       [name |-> "s2", priority |-> 2, retry_count |-> 1, enabled |-> TRUE] >>

ServerNames == {servers[i].name : i \in 1..Len(servers)}

\* StandardizedSchema.required of the tool, and the parameter maps callers supply (by their keys)
RequiredParams == {"job_name"}
ParamSets == {{}, {"job_name"}}

\* indices of the servers that are enabled, healthy and advertise the tool
AvailableServers(health, tcache) ==
    {i \in 1..Len(servers) :
        servers[i].enabled /\ health[servers[i].name] /\ servers[i].name \in tcache}

\* UniversalMCPClient._select_server_for_tool: index of the chosen server, 0 for None.
\* list.sort is stable, so among equal priorities the earlier server wins.
_select_server_for_tool(preferred, health, tcache) ==
    LET avail == AvailableServers(health, tcache) IN
    IF \E i \in avail : servers[i].name = preferred
    THEN CHOOSE i \in avail : servers[i].name = preferred
    ELSE IF avail = {} THEN 0
    ELSE CHOOSE i \in avail :
            \A j \in avail :
                \/ servers[i].priority > servers[j].priority
                \/ servers[i].priority = servers[j].priority /\ i <= j

\* UniversalMCPClient.validate_parameters, required-parameter part
validate_parameters(params, target, tcache) ==
    IF servers[target].name \notin tcache THEN FALSE
    ELSE RequiredParams \subseteq params

ExecIdle == [pc |-> "idle", target |-> 0, attempt |-> 0, calls |-> 0]

\* execute_tool_with_retry up to the first transport attempt
ExecuteToolWithRetry ==
    \E preferred \in ServerNames \cup {None}, params \in ParamSets :
        LET target == _select_server_for_tool(preferred, server_health, tools_cache) IN
        /\ exec.pc = "idle"
        /\ IF target = 0
           THEN /\ response' = [success |-> FALSE, error |-> "no_server", server_name |-> None]
                /\ exec' = ExecIdle
           ELSE IF ~validate_parameters(params, target, tools_cache)
           THEN /\ response' = [success |-> FALSE, error |-> "validation", server_name |-> servers[target].name]
                /\ exec' = ExecIdle
           ELSE IF servers[target].retry_count <= 0
           THEN /\ response' = [success |-> FALSE, error |-> "failed_after_attempts", server_name |-> servers[target].name]
                /\ exec' = ExecIdle
           ELSE /\ response' = response
                /\ exec' = [pc |-> "attempt", target |-> target, attempt |-> 0, calls |-> 0]
        /\ lastOp' = "execute_tool_with_retry"
        /\ UNCHANGED <<now, cbVars, server_health, tools_cache, cacheVars, poolVars, regVars, moreVars>>

\* one pass of the retry loop: _execute_tool_on_server is invoked and returns or raises
TransportAttempt ==
    \E outcome \in {"success", "tool_error", "raise"} :
        LET srv == servers[exec.target] IN
        /\ exec.pc = "attempt"
        /\ IF outcome = "raise"
           THEN IF exec.attempt < srv.retry_count - 1
                THEN /\ exec' = [exec EXCEPT !.attempt = @ + 1, !.calls = @ + 1]
                     /\ response' = response
                ELSE /\ exec' = [ExecIdle EXCEPT !.calls = exec.calls + 1]
                     /\ response' = [success |-> FALSE, error |-> "failed_after_attempts", server_name |-> srv.name]
           ELSE /\ exec' = [ExecIdle EXCEPT !.calls = exec.calls + 1]
                /\ response' = [success |-> (outcome = "success"),
                                error |-> IF outcome = "success" THEN None ELSE "tool_error",
                                server_name |-> srv.name]
        /\ lastOp' = "transport"
        /\ UNCHANGED <<now, cbVars, server_health, tools_cache, cacheVars, poolVars, regVars, moreVars>>

\* discover_server_capabilities(server) for an enabled server: lists the tools or fails
DiscoverServer ==
    \E i \in 1..Len(servers), ok \in BOOLEAN :
        /\ servers[i].enabled
        /\ server_health' = [server_health EXCEPT ![servers[i].name] = ok]
        /\ tools_cache' = IF ok THEN tools_cache \cup {servers[i].name} ELSE tools_cache
        /\ lastOp' = "discover"
        /\ UNCHANGED <<now, cbVars, exec, response, cacheVars, poolVars, regVars, moreVars>>

\* health_check: replaces _server_health by the outcome of probing every server
HealthCheck ==
    \E h \in [ServerNames -> BOOLEAN] :
        /\ server_health' = h
        /\ lastOp' = "health_check"
        /\ UNCHANGED <<now, cbVars, tools_cache, exec, response, cacheVars, poolVars, regVars, moreVars>>

(***************************************************************************)
(* IntelligentCache (performance_manager.py)                               *)
(*                                                                         *)
(* An Optional value is <<>> for None and <<x>> for x.  A cached value is  *)
(* a string, written as the sequence of its characters.  Of a CacheItem    *)
(* the model keeps the fields the cache reads or the claims speak of;      *)
(* created_at and access_count are written and never read.                 *)
(***************************************************************************)
Keys == {"k1", "k2", "k3"}
Values == {<<"a">>, <<"b", "b", "b">>, <<"c", "c", "c", "c", "c", "c", "c", "c">>}
MaxTtl == 1             \* callers pass ttl None, 0 or 1..MaxTtl
max_size == 2           \* IntelligentCache.max_size of the cache under test
max_size_bytes == 9     \* IntelligentCache._max_size_bytes of the cache under test
default_ttl == 1          \* IntelligentCache.default_ttl of the cache under test

Ttls == {<<>>} \cup {<<n>> : n \in 0..MaxTtl}

\* len(json.dumps(value).encode('utf-8')) of a plain ASCII string: the text and two quotes
SizeBytes(value) == Len(value) + 2

\* CacheItem.is_expired with the expiry test dropped
is_expired_never(item, t) == FALSE

\* CacheItem.is_expired
is_expired(item, t) ==
    IF item.expires_at = <<>> THEN FALSE
    ELSE t > item.expires_at[1]

Without(seq, key) == SelectSeq(seq, LAMBDA k : k /= key)

\* IntelligentCache._remove_item
_remove_item(st, key) ==
    IF key \in DOMAIN st.cache
    THEN [cache |-> [k \in DOMAIN st.cache \ {key} |-> st.cache[k]],
          access_order |-> Without(st.access_order, key),
          size_bytes |-> st.size_bytes - st.cache[key].size_bytes]
    ELSE st

\* the number of items of st that have not expired at time t
Live(st, t) == Cardinality({k \in DOMAIN st.cache : ~is_expired(st.cache[k], t)})

\* _evict_lru that passes over expired items while an unexpired one exists
_evict_lru_unexpired(st, t) ==
    IF st.access_order = <<>> THEN [st |-> st, ret |-> FALSE, victim |-> <<>>]
    ELSE LET live == SelectSeq(st.access_order, LAMBDA k : ~is_expired(st.cache[k], t))
             lru_key == IF live /= <<>> THEN Head(live) ELSE Head(st.access_order)
         IN [st |-> _remove_item(st, lru_key), ret |-> TRUE,
             victim |-> <<[key |-> lru_key,
                           expired |-> is_expired(st.cache[lru_key], t),
                           live |-> Live(st, t)]>>]

\* IntelligentCache._evict_lru; victim describes the item removed, for the record in evicted
_evict_lru(st, t) ==
    IF st.access_order = <<>> THEN [st |-> st, ret |-> FALSE, victim |-> <<>>]
    ELSE LET lru_key == Head(st.access_order)
         IN [st |-> _remove_item(st, lru_key), ret |-> TRUE,
             victim |-> <<[key |-> lru_key,
                           expired |-> is_expired(st.cache[lru_key], t),
                           live |-> Live(st, t)]>>]

\* the loop condition of set with the item-count test weakened to >
needs_room_gt(st, sz) ==
    \/ Cardinality(DOMAIN st.cache) > max_size
    \/ st.size_bytes + sz > max_size_bytes

\* the loop condition of set: "Check if we need to make room"
needs_room(st, sz) ==
    \/ Cardinality(DOMAIN st.cache) >= max_size
    \/ st.size_bytes + sz > max_size_bytes

\* the eviction loop of set: ok is FALSE when _evict_lru could not make room
RECURSIVE make_room(_, _, _, _)
RECURSIVE after_evict(_, _, _, _, _)
make_room(st, sz, t, ev) ==
    IF needs_room(st, sz)
    THEN after_evict(_evict_lru(st, t), st, sz, t, ev)
    ELSE [st |-> st, ok |-> TRUE, evicted |-> ev]

\* the body of the loop once _evict_lru has answered r
after_evict(r, st, sz, t, ev) ==
    IF ~r.ret THEN [st |-> st, ok |-> FALSE, evicted |-> ev]
    ELSE make_room(r.st, sz, t, ev \o r.victim)

\* the effective ttl of set: default_ttl for None
effective_ttl(ttl) == IF ttl = <<>> THEN default_ttl ELSE ttl[1]

\* the CacheItem set creates
new_item(value, eff, t) ==
    [value |-> value,
     expires_at |-> IF eff > 0 THEN <<t + eff>> ELSE <<>>,
     last_accessed |-> t,
     size_bytes |-> SizeBytes(value)]

\* the end of set: the item is stored in s1, the cache without the key
insert_item(s1, key, item) ==
    [cache |-> [k \in DOMAIN s1.cache \cup {key} |-> IF k = key THEN item ELSE s1.cache[k]],
     access_order |-> Append(s1.access_order, key),
     size_bytes |-> s1.size_bytes + item.size_bytes]

\* set after its eviction loop has answered m
store(m, key, value, ttl, t) ==
    IF ~m.ok THEN [st |-> m.st, ret |-> FALSE, evicted |-> m.evicted]
    ELSE [st |-> insert_item(_remove_item(m.st, key), key,
                             new_item(value, effective_ttl(ttl), t)),
          ret |-> TRUE, evicted |-> m.evicted]

\* IntelligentCache.set
set(st, key, value, ttl, t) ==
    store(make_room(st, SizeBytes(value), t, <<>>), key, value, ttl, t)

\* get that touches the item and leaves access_order as it is
get_no_move(st, key, t) ==
    IF key \notin DOMAIN st.cache THEN [st |-> st, ret |-> <<>>]
    ELSE IF is_expired(st.cache[key], t) THEN [st |-> _remove_item(st, key), ret |-> <<>>]
    ELSE [st |-> [st EXCEPT !.cache[key].last_accessed = t],
          ret |-> <<st.cache[key].value>>]

\* IntelligentCache.get
get(st, key, t) ==
    IF key \notin DOMAIN st.cache THEN [st |-> st, ret |-> <<>>]
    ELSE IF is_expired(st.cache[key], t) THEN [st |-> _remove_item(st, key), ret |-> <<>>]
    ELSE [st |-> [st EXCEPT !.cache[key].last_accessed = t,
                            !.access_order = Append(Without(@, key), key)],
          ret |-> <<st.cache[key].value>>]

\* IntelligentCache.delete
delete(st, key) ==
    IF key \in DOMAIN st.cache THEN [st |-> _remove_item(st, key), ret |-> TRUE]
    ELSE [st |-> st, ret |-> FALSE]

\* one pass of _cleanup_loop: every expired item is removed
RECURSIVE remove_all(_, _)
remove_all(st, ks) ==
    IF ks = {} THEN st
    ELSE LET k == CHOOSE x \in ks : TRUE IN remove_all(_remove_item(st, k), ks \ {k})

cleanup(st, t) == remove_all(st, {k \in DOMAIN st.cache : is_expired(st.cache[k], t)})

CacheState == [cache |-> cache, access_order |-> access_order, size_bytes |-> size_bytes]

EmptyCache == [cache |-> <<>>, access_order |-> <<>>, size_bytes |-> 0]

NoCall == [key |-> "", value |-> <<>>, ok |-> FALSE, got |-> <<>>, stale |-> FALSE]

Install(st) ==
    /\ cache' = st.cache
    /\ access_order' = st.access_order
    /\ size_bytes' = st.size_bytes

CacheSet ==
    \E key \in Keys, value \in Values, ttl \in Ttls :
        \E r \in {set(CacheState, key, value, ttl, now)} :
        /\ Install(r.st)
        /\ evicted' = r.evicted
        /\ cacheCall' = [key |-> key, value |-> <<value>>, ok |-> r.ret, got |-> <<>>, stale |-> FALSE]
        /\ lastOp' = "set"
        /\ UNCHANGED <<now, cbVars, execVars, poolVars, regVars, moreVars>>

CacheGet ==
    \E key \in Keys :
        \E r \in {get(CacheState, key, now)} :
        /\ Install(r.st)
        /\ evicted' = <<>>
        /\ cacheCall' = [key |-> key, value |-> <<>>, ok |-> r.ret /= <<>>, got |-> r.ret,
                         stale |-> key \in DOMAIN cache /\ cache[key].expires_at /= <<>>
                                   /\ now > cache[key].expires_at[1]]
        /\ lastOp' = "get"
        /\ UNCHANGED <<now, cbVars, execVars, poolVars, regVars, moreVars>>

CacheDelete ==
    \E key \in Keys :
        \E r \in {delete(CacheState, key)} :
        /\ Install(r.st)
        /\ evicted' = <<>>
        /\ cacheCall' = [key |-> key, value |-> <<>>, ok |-> r.ret, got |-> <<>>, stale |-> FALSE]
        /\ lastOp' = "delete"
        /\ UNCHANGED <<now, cbVars, execVars, poolVars, regVars, moreVars>>

\* IntelligentCache.clear
CacheClear ==
    /\ Install(EmptyCache)
    /\ evicted' = <<>>
    /\ cacheCall' = NoCall
    /\ lastOp' = "clear"
    /\ UNCHANGED <<now, cbVars, execVars, poolVars, regVars, moreVars>>

\* the body of _cleanup_loop after its sleep
CacheCleanup ==
    /\ Install(cleanup(CacheState, now))
    /\ evicted' = <<>>
    /\ cacheCall' = NoCall
    /\ lastOp' = "cleanup"
    /\ UNCHANGED <<now, cbVars, execVars, poolVars, regVars, moreVars>>

\* time.time() advances between two cache calls
CacheTick ==
    /\ now < MaxCacheTime
    /\ now' = now + 1
    /\ evicted' = <<>>
    /\ cacheCall' = NoCall
    /\ lastOp' = "tick"
    /\ UNCHANGED <<cbVars, execVars, poolVars, regVars, cache, access_order, size_bytes, moreVars>>

InitCache ==
    /\ cache = <<>>
    /\ access_order = <<>>
    /\ size_bytes = 0
    /\ cacheCall = NoCall
    /\ evicted = <<>>

(***************************************************************************)
(* ConnectionPool and PerformanceManager.with_connection_pool              *)
(* (performance_manager.py)                                                *)
(*                                                                         *)
(* Connections are the numbers 1, 2, ... in the order the factory made     *)
(* them; 0 stands for no connection.  A caller is a coroutine; it is       *)
(* suspended where the code awaits: at the lock, at the factory, in the    *)
(* operation and in connection.close().                                    *)
(***************************************************************************)
Callers == {"a", "b", "c"}
max_connections == 2         \* ConnectionPool.max_connections of the pool under test
MaxCreated == 3              \* the factory makes at most MaxCreated connections

\* the exits of the operation passed to with_connection_pool
OperationOutcomes == {"return", "raise", "timeout"}

PoolState == [pool |-> _pool, used |-> _used_connections, closed |-> _closed]

\* ConnectionPool.acquire under the lock, without the test of the limit
acquire_locked_nolimit(p, factory) ==
    IF p.pool /= <<>>
    THEN [pool |-> SubSeq(p.pool, 1, Len(p.pool) - 1),
          used |-> p.used \cup {p.pool[Len(p.pool)]},
          ret |-> <<p.pool[Len(p.pool)]>>, err |-> "", create |-> FALSE]
    ELSE IF ~factory
         THEN [pool |-> p.pool, used |-> p.used, ret |-> <<>>,
               err |-> "acquire:factory_not_set", create |-> FALSE]
         ELSE [pool |-> p.pool, used |-> p.used, ret |-> <<>>, err |-> "", create |-> TRUE]

\* ConnectionPool.acquire under the lock, making a connection before looking for an idle one
acquire_locked_create_first(p, factory) ==
    IF Cardinality(p.used) < max_connections /\ factory
    THEN [pool |-> p.pool, used |-> p.used, ret |-> <<>>, err |-> "", create |-> TRUE]
    ELSE IF p.pool /= <<>>
    THEN [pool |-> SubSeq(p.pool, 1, Len(p.pool) - 1),
          used |-> p.used \cup {p.pool[Len(p.pool)]},
          ret |-> <<p.pool[Len(p.pool)]>>, err |-> "", create |-> FALSE]
    ELSE [pool |-> p.pool, used |-> p.used, ret |-> <<>>,
          err |-> IF Cardinality(p.used) < max_connections
                  THEN "acquire:factory_not_set" ELSE "acquire:exhausted",
          create |-> FALSE]

\* ConnectionPool.acquire from taking the lock to the await of the factory:
\* ret is the connection handed out, err the RuntimeError raised, create says
\* that the factory is to be awaited (the lock stays held)
acquire_locked(p, factory) ==
    IF p.pool /= <<>>
    THEN [pool |-> SubSeq(p.pool, 1, Len(p.pool) - 1),
          used |-> p.used \cup {p.pool[Len(p.pool)]},
          ret |-> <<p.pool[Len(p.pool)]>>, err |-> "", create |-> FALSE]
    ELSE IF Cardinality(p.used) < max_connections
    THEN IF ~factory
         THEN [pool |-> p.pool, used |-> p.used, ret |-> <<>>,
               err |-> "acquire:factory_not_set", create |-> FALSE]
         ELSE [pool |-> p.pool, used |-> p.used, ret |-> <<>>, err |-> "", create |-> TRUE]
    ELSE [pool |-> p.pool, used |-> p.used, ret |-> <<>>, err |-> "acquire:exhausted", create |-> FALSE]

\* ConnectionPool.release under the lock: close says that the connection is
\* torn down instead of going back to the idle list
release_locked(p, connection) ==
    IF connection \in p.used
    THEN IF ~p.closed /\ Len(p.pool) < max_connections
         THEN [pool |-> Append(p.pool, connection), used |-> p.used \ {connection}, close |-> FALSE]
         ELSE [pool |-> p.pool, used |-> p.used \ {connection}, close |-> TRUE]
    ELSE [pool |-> p.pool, used |-> p.used, close |-> FALSE]

\* with_connection_pool without the finally: the release follows a normal return only
with_connection_pool_releases_on_return(outcome) == outcome = "return"

\* with_connection_pool, try/finally: the exits of the operation after which release is awaited
with_connection_pool_releases(outcome) == outcome \in OperationOutcomes

CallerIdle == [pc |-> "idle", conn |-> 0, last |-> 0, wcp |-> FALSE, out |-> "", released |-> 0]

\* asyncio.Lock.acquire returns without suspending when the lock is free and nobody waits for it
LockFree == _lock = "" /\ \A c \in Callers : callers[c].pc \notin {"acq_lock", "rel_lock"}

\* the caller is back where it was before the call
Returned(rec) == [rec EXCEPT !.pc = "idle", !.wcp = FALSE, !.out = "", !.released = 0]

\* acquire returned connection k: a direct caller has it, with_connection_pool enters
\* the operation; the caller drops the reference to the connection it released before
AcquireDone(c, k, w) ==
    callers' = [callers EXCEPT ![c] =
        [@ EXCEPT !.pc = IF w THEN "op" ELSE "idle", !.conn = k, !.wcp = w, !.last = 0]]

\* acquire by caller c (inside with_connection_pool when w) from the lock on:
\* to its return, its raise or the await of the factory
AcquireBody(c, w) ==
    \E r \in {acquire_locked(PoolState, _connection_factory)} :
        /\ r.create => created < MaxCreated
        /\ _pool' = r.pool
        /\ _used_connections' = r.used
        /\ IF r.create
           THEN /\ _lock' = c
                /\ callers' = [callers EXCEPT ![c] = [@ EXCEPT !.pc = "acq_factory", !.wcp = w]]
                /\ lastOp' = "acquire:factory"
           ELSE /\ _lock' = ""
                /\ IF r.ret /= <<>>
                   THEN /\ AcquireDone(c, r.ret[1], w)
                        /\ lastOp' = "acquire:return"
                   ELSE /\ callers' = [callers EXCEPT ![c] = Returned(@)]
                        /\ lastOp' = r.err
        /\ wcpRet' = <<>>
        /\ UNCHANGED <<now, cbVars, execVars, cacheVars, regVars, _closed, _connection_factory, created, moreVars>>

\* release returned in caller record rec; inside with_connection_pool this is
\* the exit of with_connection_pool
ReleaseDone(c, rec) ==
    /\ callers' = [callers EXCEPT ![c] = Returned(rec)]
    /\ IF rec.wcp
       THEN /\ lastOp' = "with_connection_pool"
            /\ wcpRet' = <<[conn |-> rec.last, out |-> rec.out, released |-> rec.released]>>
       ELSE /\ lastOp' = "release:return"
            /\ wcpRet' = <<>>

\* release(rec.last) by caller c from the lock on: to its return or to the
\* await of connection.close()
ReleaseBody(c, rec) ==
    \E r \in {release_locked(PoolState, rec.last)} :
        /\ _pool' = r.pool
        /\ _used_connections' = r.used
        /\ IF r.close
           THEN /\ _lock' = c
                /\ callers' = [callers EXCEPT ![c] = [rec EXCEPT !.pc = "rel_close"]]
                /\ lastOp' = "release:close"
                /\ wcpRet' = <<>>
           ELSE /\ _lock' = ""
                /\ ReleaseDone(c, rec)
        /\ UNCHANGED <<now, cbVars, execVars, cacheVars, regVars, _closed, _connection_factory, created, moreVars>>

\* release(rec.last) by caller c up to the lock
ReleaseStart(c, rec) ==
    IF LockFree
    THEN ReleaseBody(c, rec)
    ELSE /\ callers' = [callers EXCEPT ![c] = [rec EXCEPT !.pc = "rel_lock"]]
         /\ lastOp' = "release:wait"
         /\ wcpRet' = <<>>
         /\ UNCHANGED <<now, cbVars, execVars, cacheVars, regVars, _pool, _used_connections, _closed,
                        _connection_factory, _lock, created, moreVars>>

\* pool.set_connection_factory(factory)
SetConnectionFactory ==
    /\ ~_connection_factory
    /\ _connection_factory' = TRUE
    /\ lastOp' = "set_connection_factory"
    /\ wcpRet' = <<>>
    /\ UNCHANGED <<now, cbVars, execVars, cacheVars, regVars, _pool, _used_connections, _closed,
                   _lock, created, callers, moreVars>>

\* pool.acquire(), called directly or (w) by with_connection_pool
Acquire ==
    \E c \in Callers, w \in BOOLEAN :
        /\ callers[c].pc = "idle"
        /\ callers[c].conn = 0
        /\ IF _closed
           THEN /\ lastOp' = "acquire:closed"
                /\ wcpRet' = <<>>
                /\ UNCHANGED <<now, cbVars, execVars, cacheVars, regVars, _pool, _used_connections,
                               _closed, _connection_factory, _lock, created, callers, moreVars>>
           ELSE IF LockFree
           THEN AcquireBody(c, w)
           ELSE /\ callers' = [callers EXCEPT ![c] = [@ EXCEPT !.pc = "acq_lock", !.wcp = w]]
                /\ lastOp' = "acquire:wait"
                /\ wcpRet' = <<>>
                /\ UNCHANGED <<now, cbVars, execVars, cacheVars, regVars, _pool, _used_connections,
                               _closed, _connection_factory, _lock, created, moreVars>>

\* a caller waiting in acquire gets the lock
AcquireLocked ==
    \E c \in Callers :
        /\ callers[c].pc = "acq_lock"
        /\ _lock = ""
        /\ AcquireBody(c, callers[c].wcp)

\* asyncio.wait_for(self._connection_factory(), timeout) returns a new connection or times out
FactoryReturn ==
    \E c \in Callers, made \in BOOLEAN :
        /\ callers[c].pc = "acq_factory"
        /\ IF made
           THEN /\ created' = created + 1
                /\ _used_connections' = _used_connections \cup {created + 1}
                /\ AcquireDone(c, created + 1, callers[c].wcp)
                /\ lastOp' = "acquire:created"
           ELSE /\ created' = created
                /\ _used_connections' = _used_connections
                /\ callers' = [callers EXCEPT ![c] = Returned(@)]
                /\ lastOp' = "acquire:timeout"
        /\ _lock' = ""
        /\ wcpRet' = <<>>
        /\ UNCHANGED <<now, cbVars, execVars, cacheVars, regVars, _pool, _closed, _connection_factory, moreVars>>

\* with_connection_pool: operation(connection) returns, raises or times out,
\* and the finally clause calls release
Operation ==
    \E c \in Callers, outcome \in OperationOutcomes :
        \E rec \in {[callers[c] EXCEPT !.last = callers[c].conn, !.conn = 0, !.out = outcome]} :
            /\ callers[c].pc = "op"
            /\ IF with_connection_pool_releases(outcome)
               THEN ReleaseStart(c, [rec EXCEPT !.released = @ + 1])
               ELSE /\ ReleaseDone(c, rec)
                    /\ UNCHANGED <<now, cbVars, execVars, cacheVars, regVars, _pool, _used_connections,
                                   _closed, _connection_factory, _lock, created, moreVars>>

\* pool.release(connection) called directly, with the connection the caller holds
\* or once more with the one it released before
ReleaseCall ==
    \E c \in Callers :
        \E k \in {callers[c].conn, callers[c].last} \ {0} :
            /\ callers[c].pc = "idle"
            /\ ReleaseStart(c, [callers[c] EXCEPT
                                    !.last = k,
                                    !.conn = IF k = callers[c].conn THEN 0 ELSE callers[c].conn,
                                    !.released = 1])

\* a caller waiting in release gets the lock
ReleaseLocked ==
    \E c \in Callers :
        /\ callers[c].pc = "rel_lock"
        /\ _lock = ""
        /\ ReleaseBody(c, callers[c])

\* _close_connection(connection) returns inside release
CloseConnection ==
    \E c \in Callers :
        /\ callers[c].pc = "rel_close"
        /\ _lock' = ""
        /\ ReleaseDone(c, callers[c])
        /\ UNCHANGED <<now, cbVars, execVars, cacheVars, regVars, _pool, _used_connections, _closed,
                       _connection_factory, created, moreVars>>

\* pool.close() takes the lock, sets _closed and awaits the close of every connection
CloseBegin ==
    /\ _lock = ""
    /\ ~_closed
    /\ _lock' = "close"
    /\ _closed' = TRUE
    /\ lastOp' = "close:wait"
    /\ wcpRet' = <<>>
    /\ UNCHANGED <<now, cbVars, execVars, cacheVars, regVars, _pool, _used_connections,
                   _connection_factory, created, callers, moreVars>>

\* pool.close() clears both collections and gives the lock back
CloseEnd ==
    /\ _lock = "close"
    /\ _pool' = <<>>
    /\ _used_connections' = {}
    /\ _lock' = ""
    /\ lastOp' = "close:return"
    /\ wcpRet' = <<>>
    /\ UNCHANGED <<now, cbVars, execVars, cacheVars, regVars, _closed, _connection_factory,
                   created, callers, moreVars>>

\* ConnectionPool.__init__
InitPool ==
    /\ _pool = <<>>
    /\ _used_connections = {}
    /\ _closed = FALSE
    /\ _connection_factory = FALSE
    /\ _lock = ""
    /\ created = 0
    /\ callers = [c \in Callers |-> CallerIdle]
    /\ wcpRet = <<>>

(***************************************************************************)
(* ToolRegistry (tool_registry.py)                                         *)
(*                                                                         *)
(* A selection is <<>> for None and <<[tool_name, server_name]>> for a     *)
(* pair.  avg_response_time_ms is a fraction <<p, q>> in lowest terms, so  *)
(* that the running average and the score are the exact values of the      *)
(* formulas in the code; the rounding of Python floats is left out.        *)
(***************************************************************************)
MaxRegTime == 1              \* the clock of the registry specification runs from 0 to MaxRegTime
MaxExecutions == 2           \* at most MaxExecutions executions of a tool come back

\* IntentType members: two with a ToolMapping and ANALYZE_FAILURE, which has none
Intents == {"list_jobs", "search_jobs", "analyze_failure"}

\* ToolRegistry.tool_mappings for LIST_JOBS and SEARCH_JOBS
tool_mappings ==
    [list_jobs |-> [primary_tools |-> <<"list_jobs", "list_jenkins_jobs">>,
                    fallback_tools |-> <<"search_jobs", "get_jobs">>],
     search_jobs |-> [primary_tools |-> <<"search_jobs", "find_jobs">>,
                      fallback_tools |-> <<"list_jobs", "query_jobs">>]]

\* ToolRegistry.fallback_chains: primary tool -> FallbackChain.fallbacks
fallback_chains ==
    [list_jobs |-> <<"search_jobs", "get_jobs", "list_jenkins_jobs">>,
     get_job_info |-> <<"job_info", "get_job_details", "search_jobs">>,
     get_build_status |-> <<"build_status", "get_build_info", "get_job_info">>,
     search_jobs |-> <<"find_jobs", "list_jobs">>]

\* the tool lists a server answers session.list_tools() with
ToolLists == {{"list_jobs", "get_jobs"}, {"list_jenkins_jobs", "search_jobs"}}

\* (time.time() - start_time) * 1000 of an execution
ExecutionTimes == {1, 3}

\* what mcp_client.execute_tool_with_retry does: returns a response with
\* success True or False, or raises
Outcomes == {"success", "failure", "raise"}

RECURSIVE Gcd(_, _)
Gcd(a, b) == IF b = 0 THEN a ELSE Gcd(b, a % b)

\* the fraction p/q in lowest terms
Fraction(p, q) == <<p \div Gcd(p, q), q \div Gcd(p, q)>>

\* ToolPerformance(tool_name, server_name)
ToolPerformance ==
    [success_count |-> 0, failure_count |-> 0, avg_response_time_ms |-> <<0, 1>>,
     last_success |-> 0]

\* success_rate * 0.7 + (1000 / max(avg_response_time_ms, 1)) * 0.3 as a fraction <<n, d>>:
\* with success_rate = s/c and max(avg, 1) = p/q it is (7*s*p + 3000*c*q) / (10*c*p)
Score(performance) ==
    LET total == performance.success_count + performance.failure_count
        s == IF total > 0 THEN performance.success_count ELSE 1
        c == IF total > 0 THEN total ELSE 2
        avg == performance.avg_response_time_ms
        p == IF avg[1] >= avg[2] THEN avg[1] ELSE 1
        q == IF avg[1] >= avg[2] THEN avg[2] ELSE 1
    IN  <<7 * s * p + 3000 * c * q, 10 * c * p>>

\* the sort key (score, last_success) of one candidate is greater than that of another
KeyGreater(x, y) ==
    LET a == Score(x)
        b == Score(y)
    IN  \/ a[1] * b[2] > b[1] * a[2]
        \/ a[1] * b[2] = b[1] * a[2] /\ x.last_success > y.last_success

\* the servers of server_tools, in the order of the dict, that have the tool and a ToolPerformance
Candidates(tool_name, stools, metrics, order) ==
    SelectSeq(order, LAMBDA s : tool_name \in stools[s] /\ <<s, tool_name>> \in DOMAIN metrics)

\* _find_best_server_for_tool that returns the first candidate, unsorted
_find_best_server_for_tool_first(tool_name, stools, metrics, order) ==
    LET cand == Candidates(tool_name, stools, metrics, order) IN
    IF cand = <<>> THEN <<>>
    ELSE <<[tool_name |-> tool_name, server_name |-> cand[1]]>>

\* ToolRegistry._find_best_server_for_tool: list.sort(reverse=True) is stable,
\* candidates with equal keys stay in the order of the dict
_find_best_server_for_tool(tool_name, stools, metrics, order) ==
    LET cand == Candidates(tool_name, stools, metrics, order) IN
    IF cand = <<>> THEN <<>>
    ELSE LET i == CHOOSE i \in 1..Len(cand) :
                    /\ \A j \in 1..Len(cand) :
                          ~KeyGreater(metrics[<<cand[j], tool_name>>], metrics[<<cand[i], tool_name>>])
                    /\ \A j \in 1..(i - 1) :
                          KeyGreater(metrics[<<cand[i], tool_name>>], metrics[<<cand[j], tool_name>>])
         IN  <<[tool_name |-> tool_name, server_name |-> cand[i]]>>

\* the result for the first tool of the list that has a server, <<>> when none has
RECURSIVE FirstFound(_, _, _, _)
FirstFound(tool_names, stools, metrics, order) ==
    IF tool_names = <<>> THEN <<>>
    ELSE IF _find_best_server_for_tool(tool_names[1], stools, metrics, order) /= <<>>
    THEN _find_best_server_for_tool(tool_names[1], stools, metrics, order)
    ELSE FirstFound(Tail(tool_names), stools, metrics, order)

\* select_optimal_tool that tries the fallback tools before the primary tools
select_optimal_tool_fallbacks_first(intent, stools, metrics, order) ==
    IF intent \notin DOMAIN tool_mappings THEN <<>>
    ELSE FirstFound(tool_mappings[intent].fallback_tools \o tool_mappings[intent].primary_tools,
                    stools, metrics, order)

\* ToolRegistry.select_optimal_tool
select_optimal_tool(intent, stools, metrics, order) ==
    IF intent \notin DOMAIN tool_mappings THEN <<>>
    ELSE FirstFound(tool_mappings[intent].primary_tools \o tool_mappings[intent].fallback_tools,
                    stools, metrics, order)

\* _execute_tool_with_tracking that does not count an execution that raised
_execute_tool_with_tracking_lost_raise(performance, outcome, execution_time, t) ==
    IF outcome = "success"
    THEN [performance EXCEPT
            !.success_count = @ + 1,
            !.last_success = t,
            !.avg_response_time_ms =
                Fraction(@[1] * (performance.success_count + performance.failure_count)
                            + execution_time * @[2],
                         @[2] * (performance.success_count + 1 + performance.failure_count))]
    ELSE IF outcome = "failure" THEN [performance EXCEPT !.failure_count = @ + 1]
    ELSE performance

\* ToolRegistry._execute_tool_with_tracking, the update of the ToolPerformance:
\* total_calls is taken after success_count has been incremented
_execute_tool_with_tracking(performance, outcome, execution_time, t) ==
    IF outcome = "success"
    THEN [performance EXCEPT
            !.success_count = @ + 1,
            !.last_success = t,
            !.avg_response_time_ms =
                Fraction(@[1] * (performance.success_count + performance.failure_count)
                            + execution_time * @[2],
                         @[2] * (performance.success_count + 1 + performance.failure_count))]
    ELSE [performance EXCEPT !.failure_count = @ + 1]

\* the NormalizedResponse _execute_tool_with_tracking returns, without its data and error text
Response(outcome, tool_name, server_name) ==
    [success |-> outcome = "success", tool_name |-> tool_name, server_name |-> server_name]

\* execute_with_fallback, the loop over chain.fallbacks after position i: the
\* position of the next fallback tool a server is found for, 0 at the end of the chain
execute_with_fallback_next(fallbacks, i, stools, metrics, order) ==
    LET found == {k \in (i + 1)..Len(fallbacks) :
                    _find_best_server_for_tool(fallbacks[k], stools, metrics, order) /= <<>>}
    IN  IF found = {} THEN 0 ELSE CHOOSE k \in found : \A j \in found : k <= j

\* execute_with_fallback that returns the response of the primary tool whatever the fallbacks did
execute_with_fallback_return_primary(primary, last) == primary

\* execute_with_fallback, its return value after the last attempt: a fallback
\* response that succeeded is returned, otherwise `return response`, the
\* response of the primary tool
execute_with_fallback_return(primary, last) ==
    IF last.success THEN last ELSE primary

\* discover_tools, lines 228-234: a ToolPerformance for every discovered pair that has none
discover_tools(metrics, discovered) ==
    [k \in DOMAIN metrics \cup discovered |->
        IF k \in DOMAIN metrics THEN metrics[k] ELSE ToolPerformance]

\* _tools_cache has a key for every tool every discovery listed, as server_tools has;
\* the client finds an enabled, healthy server with the tool
ClientHasServer(tool_name, preferred) ==
    _select_server_for_tool(preferred, server_health,
                            {s \in ServerNames : tool_name \in server_tools[s]}) /= 0

\* the server execute_tool_with_retry runs the tool on when the registry passes it
\* the server name preferred: the name of the server _select_server_for_tool returns,
\* "" for None
ClientTarget(tool_name, preferred) ==
    LET target == _select_server_for_tool(preferred, server_health,
                                          {s \in ServerNames : tool_name \in server_tools[s]})
    IN  IF target = 0 THEN "" ELSE servers[target].name

\* server_name of the response of an attempt: that of the client's response, the
\* target server or None, or the registry's own when the client raised
ResponseServer(outcome, tool_name, server_name) ==
    IF outcome = "raise" THEN server_name ELSE ClientTarget(tool_name, server_name)

\* the executions the ToolPerformance entries have counted
RECURSIVE TotalCalls(_, _)
TotalCalls(metrics, keys) ==
    IF keys = {} THEN 0
    ELSE LET k == CHOOSE k \in keys : TRUE
         IN  metrics[k].success_count + metrics[k].failure_count
                + TotalCalls(metrics, keys \ {k})

RegIdle == [pc |-> "idle", intent |-> "", tool |-> "", server |-> "", idx |-> 0, primary |-> <<>>]

\* time.time() advances
RegTick ==
    /\ now < MaxRegTime
    /\ now' = now + 1
    /\ regRet' = <<>>
    /\ lastOp' = "tick"
    /\ UNCHANGED <<cbVars, execVars, cacheVars, poolVars, server_tools, server_order,
                   performance_metrics, reg, moreVars>>

\* the orders in which the servers of S can enter a dict
Orders(S) ==
    {f \in [1..Cardinality(S) -> S] : \A i, j \in DOMAIN f : i /= j => f[i] /= f[j]}

\* registry.discover_tools(): discover_all_servers asks every enabled server;
\* answer[s] is the tool list of s, or <<>> when its discovery fails.  The
\* servers that enter server_tools in this run do so in the order in which
\* their discoveries ended.
DiscoverTools ==
    \E answer \in [ServerNames -> {<<>>} \cup {<<l>> : l \in ToolLists}] :
        \E stools \in {[s \in ServerNames |->
                            IF answer[s] = <<>> THEN server_tools[s]
                            ELSE server_tools[s] \cup answer[s][1]]} :
            \E entered \in Orders({s \in ServerNames : stools[s] /= {} /\ server_tools[s] = {}}) :
                /\ \A i \in 1..Len(servers) : servers[i].enabled
                /\ server_health' = [s \in ServerNames |-> answer[s] /= <<>>]
                /\ tools_cache' = {s \in ServerNames : stools[s] /= {}}
                /\ server_tools' = stools
                /\ server_order' = server_order \o entered
                /\ performance_metrics' =
                        discover_tools(performance_metrics,
                                       {k \in ServerNames \X UNION ToolLists : k[2] \in stools[k[1]]})
                /\ regRet' = <<>>
                /\ lastOp' = "discover_tools"
                /\ UNCHANGED <<now, cbVars, exec, response, cacheVars, poolVars, reg, moreVars>>

\* mcp_client.health_check()
RegHealthCheck ==
    \E h \in [ServerNames -> BOOLEAN] :
        /\ server_health' = h
        /\ regRet' = <<>>
        /\ lastOp' = "health_check"
        /\ UNCHANGED <<now, cbVars, tools_cache, exec, response, cacheVars, poolVars,
                       server_tools, server_order, performance_metrics, reg, moreVars>>

\* registry.select_optimal_tool(intent): reads the registry and changes nothing
SelectOptimalTool ==
    /\ regRet' = <<>>
    /\ lastOp' = "select_optimal_tool"
    /\ UNCHANGED <<now, cbVars, execVars, cacheVars, poolVars, server_tools, server_order,
                   performance_metrics, reg, moreVars>>

\* _execute_tool_with_tracking up to the await of execute_tool_with_retry
StartAttempt(held, sel, idx) ==
    /\ reg' = [held EXCEPT !.pc = IF idx = 0 THEN "primary" ELSE "fallback",
                           !.tool = sel.tool_name, !.server = sel.server_name, !.idx = idx]
    /\ regRet' = <<>>

\* execute_with_fallback returns resp; last is the response of the attempt made
\* last and idx its position in the chain, 0 for the primary tool
ReturnResponse(resp, last, idx) ==
    /\ reg' = RegIdle
    /\ regRet' = <<[response |-> resp, last |-> last, idx |-> idx]>>

\* registry.execute_with_fallback(intent, params) up to the first await
ExecuteWithFallback ==
    \E intent \in Intents :
        \E sel \in {select_optimal_tool(intent, server_tools, performance_metrics, server_order)} :
            /\ reg.pc = "idle"
            /\ IF sel = <<>>
               THEN /\ ReturnResponse([success |-> FALSE, tool_name |-> "", server_name |-> ""],
                                       [success |-> FALSE, tool_name |-> "", server_name |-> ""], 0)
                    /\ performance_metrics' = performance_metrics
               ELSE /\ StartAttempt([RegIdle EXCEPT !.intent = intent], sel[1], 0)
                    /\ performance_metrics' =
                            discover_tools(performance_metrics,
                                           {<<sel[1].server_name, sel[1].tool_name>>})
            /\ lastOp' = "execute_with_fallback"
            /\ UNCHANGED <<now, cbVars, execVars, cacheVars, poolVars, server_tools, server_order, moreVars>>

\* execute_tool_with_retry returns or raises: the ToolPerformance is updated and
\* execute_with_fallback runs on to its return or to the await of the next attempt
AttemptReturn ==
    /\ reg.pc \in {"primary", "fallback"}
    /\ TotalCalls(performance_metrics, DOMAIN performance_metrics) < MaxExecutions
    /\ \E outcome \in Outcomes, execution_time \in ExecutionTimes :
        \E resp \in {Response(outcome, reg.tool, ResponseServer(outcome, reg.tool, reg.server))},
           metrics \in {[performance_metrics EXCEPT ![<<reg.server, reg.tool>>] =
                            _execute_tool_with_tracking(@, outcome, execution_time, now)]} :
            \E primary \in {IF reg.idx = 0 THEN resp ELSE reg.primary[1]} :
                \E k \in {IF resp.success \/ primary.tool_name \notin DOMAIN fallback_chains
                          THEN 0
                          ELSE execute_with_fallback_next(fallback_chains[primary.tool_name],
                                                          reg.idx, server_tools, metrics,
                                                          server_order)} :
                    /\ outcome = "success" => ClientHasServer(reg.tool, reg.server)
                    /\ performance_metrics' = metrics
                    /\ IF k = 0
                       THEN ReturnResponse(execute_with_fallback_return(primary, resp), resp,
                                           reg.idx)
                       ELSE StartAttempt(
                                [reg EXCEPT !.primary = <<primary>>],
                                _find_best_server_for_tool(
                                    fallback_chains[primary.tool_name][k], server_tools,
                                    metrics, server_order)[1],
                                k)
                    /\ lastOp' = "attempt"
                    /\ UNCHANGED <<now, cbVars, execVars, cacheVars, poolVars, server_tools,
                                   server_order, moreVars>>

\* ToolRegistry.__init__
InitRegistry ==
    /\ server_tools = [s \in ServerNames |-> {}]
    /\ server_order = <<>>
    /\ performance_metrics = <<>>
    /\ reg = RegIdle
    /\ regRet = <<>>

(***************************************************************************)
(* The running average of a ToolPerformance (tool_registry.py)             *)
(*                                                                         *)
(* One entry on its own, as _execute_tool_with_tracking updates it         *)
(* execution after execution, beside the latencies of those executions.    *)
(***************************************************************************)
MaxRecorded == 4             \* executions recorded for the entry

\* _execute_tool_with_tracking comes back for the entry: execution_time is what
\* the execution took, whether or not the code measures it
RecordExecution ==
    \E outcome \in Outcomes, execution_time \in ExecutionTimes :
        /\ latencies.n < MaxRecorded
        /\ tracked' = _execute_tool_with_tracking(tracked, outcome, execution_time, now)
        /\ latencies' = [sum |-> latencies.sum + execution_time, n |-> latencies.n + 1]
        /\ lastOp' = outcome
        /\ UNCHANGED <<now, coreVars, classifyVars, schemaVars, callVars, discVars, lateVars>>

\* ToolPerformance(tool_name, server_name), nothing recorded
InitTrack ==
    /\ tracked = ToolPerformance
    /\ latencies = [sum |-> 0, n |-> 0]

(***************************************************************************)
(* RecoveryManager._classify_failure (recovery_manager.py)                 *)
(*                                                                         *)
(* An error text is the sequence of its words.  A pattern of the table is  *)
(* the sequence of the runs of words that its ".*" separate: r"tool.*not   *)
(* found" is << <<"tool">>, <<"not", "found">> >>.                         *)
(***************************************************************************)
MaxWords == 4                \* an error text has at most MaxWords words

\* the words error texts are made of
Words == {"tool", "does", "not", "exist", "found", "connection", "error", "rate", "limit",
          "Timeout"}

\* str.lower() of a word
lower(word) ==
    IF word = "Timeout" THEN "timeout" ELSE IF word = "TRUE" THEN "true" ELSE word

\* the error texts handle_failure is given
ErrorMessages == UNION {[1..n -> Words] : n \in 0..MaxWords}

\* RecoveryManager._initialize_failure_patterns: the table, in its order
failure_patterns ==
    << [failure_type |-> "tool_not_found",
        error_patterns |-> <<<<<<"tool">>, <<"not", "found">>>>,
                           <<<<"unknown", "tool">>>>,
                           <<<<"no", "tool", "named">>>>,
                           <<<<"tool">>, <<"does", "not", "exist">>>>>>],
       [failure_type |-> "parameter_error",
        error_patterns |-> <<<<<<"invalid", "parameter">>>>,
                           <<<<"parameter">>, <<"required">>>>,
                           <<<<"parameter">>, <<"missing">>>>,
                           <<<<"wrong", "type">>, <<"parameter">>>>,
                           <<<<"parameter", "validation", "failed">>>>>>],
       [failure_type |-> "permission_denied",
        error_patterns |-> <<<<<<"permission", "denied">>>>,
                           <<<<"access", "denied">>>>,
                           <<<<"unauthorized">>>>,
                           <<<<"forbidden">>>>,
                           <<<<"not", "allowed">>>>>>],
       [failure_type |-> "timeout",
        error_patterns |-> <<<<<<"timeout">>>>,
                           <<<<"timed", "out">>>>,
                           <<<<"operation", "took", "too", "long">>>>,
                           <<<<"connection", "timeout">>>>>>],
       [failure_type |-> "server_error",
        error_patterns |-> <<<<<<"internal", "server", "error">>>>,
                           <<<<"server", "error">>>>,
                           <<<<"500", "error">>>>,
                           <<<<"service", "unavailable">>>>,
                           <<<<"503", "error">>>>>>],
       [failure_type |-> "resource_not_found",
        error_patterns |-> <<<<<<"job">>, <<"not", "found">>>>,
                           <<<<"build">>, <<"not", "found">>>>,
                           <<<<"resource", "not", "found">>>>,
                           <<<<"404">>, <<"not", "found">>>>,
                           <<<<"does", "not", "exist">>>>>>],
       [failure_type |-> "rate_limited",
        error_patterns |-> <<<<<<"rate", "limit">>>>,
                           <<<<"too", "many", "requests">>>>,
                           <<<<"429", "error">>>>,
                           <<<<"quota", "exceeded">>>>>>],
       [failure_type |-> "network_error",
        error_patterns |-> <<<<<<"connection", "error">>>>,
                           <<<<"network", "error">>>>,
                           <<<<"connection", "refused">>>>,
                           <<<<"dns">>, <<"error">>>>,
                           <<<<"host">>, <<"unreachable">>>>>>] >>

\* the run of words stands in the text at position i
RunAt(run, text, i) ==
    /\ i + Len(run) - 1 <= Len(text)
    /\ \A k \in 1..Len(run) : text[i + k - 1] = run[k]

\* re.search(error_pattern, text) from position i on: every run is found, in
\* order, each after the end of the one before
RECURSIVE search(_, _, _)
search(error_pattern, text, i) ==
    IF error_pattern = <<>> THEN TRUE
    ELSE \E j \in i..Len(text) :
            /\ RunAt(error_pattern[1], text, j)
            /\ search(Tail(error_pattern), text, j + Len(error_pattern[1]))

\* some pattern of the table entry is found in the text
PatternMatches(pattern, text) ==
    \E k \in 1..Len(pattern.error_patterns) : search(pattern.error_patterns[k], text, 1)

\* RecoveryManager._classify_failure: the type of the first entry of the table
\* with a pattern found in the lowered text, UNKNOWN when there is none
_classify_failure(message) ==
    LET error_lower == [i \in DOMAIN message |-> lower(message[i])]
        hits == {i \in 1..Len(failure_patterns) : PatternMatches(failure_patterns[i], error_lower)}
    IN  IF hits = {} THEN "unknown"
        ELSE failure_patterns[CHOOSE i \in hits : \A j \in hits : i <= j].failure_type

\* handle_failure classifies the error of a failure context
ClassifyFailure ==
    /\ failure_type' = _classify_failure(error_message)
    /\ lastOp' = "classify_failure"
    /\ UNCHANGED <<now, coreVars, trackVars, error_message, schemaVars, callVars, discVars, lateVars>>

\* no failure handled yet
InitClassify ==
    /\ error_message = <<>>
    /\ failure_type = "unknown"

(***************************************************************************)
(* UniversalMCPClient.normalize_tool_schema (mcp_universal_client.py)      *)
(*                                                                         *)
(* A raw tool is an object with attributes, a dict with keys, or neither.  *)
(* has is the set of its attributes or keys.  An inputSchema is None, a    *)
(* dict with the keys of its field keys, or a list that is not empty.     *)
(***************************************************************************)
\* the properties and the required list of an input schema that has them
SchemaProperties == {"job_name", "limit"}
SchemaRequired == {"job_name"}

\* values of the inputSchema attribute
InputSchemas ==
    {[kind |-> "None", keys |-> {}], [kind |-> "list", keys |-> {}]}
        \cup {[kind |-> "dict", keys |-> k] : k \in SUBSET {"properties", "required"}}

\* what a server may list as a tool
RawTools ==
    [shape : {"object"}, has : SUBSET {"name", "description", "inputSchema"},
     description : {None, "text"}, inputSchema : InputSchemas]
        \cup [shape : {"dict"}, has : SUBSET {"name", "description", "parameters", "required"},
              description : {None, "text"}, inputSchema : {[kind |-> "None", keys |-> {}]}]
        \cup [shape : {"other"}, has : {{}}, description : {None},
              inputSchema : {[kind |-> "None", keys |-> {}]}]

\* StandardizedSchema(name, description, parameters, required) as returned
StandardizedSchema(name, description, parameters, required) ==
    [raised |-> "", name |-> name, description |-> description, parameters |-> parameters,
     required |-> required]

\* the exception that leaves normalize_tool_schema
Raised(exception) ==
    [raised |-> exception, name |-> "", description |-> "", parameters |-> {}, required |-> {}]

\* input_schema.get(key, default) of a dict
dict_get(input_schema, key, value, default) ==
    IF key \in input_schema.keys THEN value ELSE default

\* normalize_tool_schema: parameters and required of an object, read from its inputSchema,
\* an attribute that exists
object_schema(raw, description) ==
    IF raw.inputSchema.kind = "None"
            \/ (raw.inputSchema.kind = "dict" /\ raw.inputSchema.keys = {})
    THEN StandardizedSchema("tool", description, {}, {})
    ELSE IF raw.inputSchema.kind = "list"
    THEN Raised("AttributeError")
    ELSE StandardizedSchema("tool", description,
                            dict_get(raw.inputSchema, "properties", SchemaProperties, {}),
                            dict_get(raw.inputSchema, "required", SchemaRequired, {}))

\* UniversalMCPClient.normalize_tool_schema
normalize_tool_schema(raw) ==
    IF raw.shape = "object" /\ "name" \in raw.has
    THEN IF "description" \notin raw.has \/ "inputSchema" \notin raw.has
         THEN Raised("AttributeError")
         ELSE object_schema(raw, IF raw.description = None THEN "" ELSE raw.description)
    ELSE IF raw.shape = "dict"
    THEN StandardizedSchema(IF "name" \in raw.has THEN "tool" ELSE "",
                            IF "description" \in raw.has THEN raw.description ELSE "",
                            IF "parameters" \in raw.has THEN SchemaProperties ELSE {},
                            IF "required" \in raw.has THEN SchemaRequired ELSE {})
    ELSE StandardizedSchema("unknown", "", {}, {})

\* _discover_http_capabilities normalizes a tool of tools_response.tools
NormalizeToolSchema ==
    \E raw \in RawTools :
        /\ raw_tool' = raw
        /\ schema' = normalize_tool_schema(raw)
        /\ lastOp' = "normalize_tool_schema"
        /\ UNCHANGED <<now, coreVars, trackVars, classifyVars, callVars, discVars, lateVars>>

\* no tool normalized yet
InitSchema ==
    /\ raw_tool = [shape |-> "other", has |-> {}, description |-> None,
                   inputSchema |-> [kind |-> "None", keys |-> {}]]
    /\ schema = StandardizedSchema("unknown", "", {}, {})

(***************************************************************************)
(* execute_tool_with_retry and validate_parameters                         *)
(* (mcp_universal_client.py)                                               *)
(*                                                                         *)
(* A Python value is its type and its repr.  A parameter map gives every   *)
(* name of ParamNames a value or Absent.  The outcome of a conversion or   *)
(* of a validation carries in raised the exception that left it, "" when   *)
(* it returned.                                                            *)
(***************************************************************************)
MaxRetryCount == 2           \* MCPServerConfig.retry_count in 0..MaxRetryCount

ParamNames == {"job_name", "limit"}

\* the order in which the required list and the params dict are walked
ParamOrder == <<"job_name", "limit">>

Value(type, text) == [type |-> type, text |-> text]

Absent == Value("absent", "")

\* values callers supply for limit: 42, 10**400, True, "42", "TRUE", "abc", 1.5, None, []
ParamValues ==
    {Value("int", "42"), Value("int", "10**400"), Value("bool", "True"), Value("str", "42"),
     Value("str", "TRUE"), Value("str", "abc"), Value("float", "1.5"),
     Value("NoneType", "None"), Value("list", "[]")}

\* the parameter maps callers supply
ParamMaps ==
    {[n \in ParamNames |-> IF n = "limit" THEN v ELSE j] :
        v \in ParamValues \cup {Absent}, j \in {Value("str", "abc"), Absent}}

\* the schemas of the tool: limit is declared with a type, job_name is not declared
ToolSchemas ==
    {[parameters |-> [limit |-> t], required |-> r] :
        t \in {"integer", "boolean", "number", "string"}, r \in SUBSET ParamNames}

\* what an operation on values gives: a value, or the exception it raises
Returns(value) == [raised |-> "", value |-> value]
Raises(exception) == [raised |-> exception, value |-> Absent]

\* str.isdigit()
isdigit(text) == text \in {"42"}

\* float(value)
float(value) ==
    IF value.type = "int"
    THEN IF value.text = "10**400" THEN Raises("OverflowError")
         ELSE Returns(Value("float", "42.0"))
    ELSE IF value.type = "bool" THEN Returns(Value("float", "1.0"))
    ELSE IF value.type = "float" THEN Returns(value)
    ELSE IF value.type = "str"
    THEN IF isdigit(value.text) THEN Returns(Value("float", "42.0")) ELSE Raises("ValueError")
    ELSE Raises("TypeError")

\* UniversalMCPClient._convert_parameter_type
_convert_parameter_type(value, expected_type) ==
    IF expected_type = "integer"
    THEN IF value.type \in {"int", "bool"} THEN Returns(value)
         ELSE IF value.type = "str" /\ isdigit(value.text)
         THEN Returns(Value("int", value.text))
         ELSE Raises("ValueError")
    ELSE IF expected_type = "boolean"
    THEN IF value.type = "bool" THEN Returns(value)
         ELSE IF value.type = "str"
         THEN IF lower(value.text) \in {"true", "yes", "1"} THEN Returns(Value("bool", "True"))
              ELSE IF lower(value.text) \in {"false", "no", "0"}
              THEN Returns(Value("bool", "False"))
              ELSE Raises("ValueError")
         ELSE Returns(Value("NoneType", "None"))
    ELSE IF expected_type = "number"
    THEN IF float(value).raised \in {"ValueError", "TypeError"} THEN Raises("ValueError")
         ELSE float(value)
    ELSE Returns(Value("str", value.text))

\* the conversion validate_parameters makes of a supplied parameter
Converted(tschema, params, n) ==
    IF n \in DOMAIN tschema.parameters
    THEN _convert_parameter_type(params[n], tschema.parameters[n])
    ELSE Returns(params[n])

\* UniversalMCPClient.validate_parameters for a tool whose schema is found:
\* the ValidationResult, or the exception of a conversion that is no ValueError
validate_parameters_of(tschema, params) ==
    LET supplied == SelectSeq(ParamOrder, LAMBDA n : params[n] /= Absent)
        missing == SelectSeq(ParamOrder,
                             LAMBDA n : n \in tschema.required /\ params[n] = Absent)
        failed == SelectSeq(supplied,
                            LAMBDA n : Converted(tschema, params, n).raised = "ValueError")
        escaped == SelectSeq(supplied,
                             LAMBDA n : Converted(tschema, params, n).raised
                                            \notin {"", "ValueError"})
        errors == [i \in 1..Len(missing) |-> <<"missing", missing[i]>>]
                    \o [i \in 1..Len(failed) |-> <<"convert", failed[i]>>]
    IN  IF escaped /= <<>>
        THEN [raised |-> Converted(tschema, params, escaped[1]).raised, valid |-> FALSE,
              errors |-> <<>>, converted_params |-> [n \in ParamNames |-> Absent]]
        ELSE [raised |-> "", valid |-> errors = <<>>, errors |-> errors,
              converted_params |->
                    [n \in ParamNames |->
                        IF params[n] /= Absent /\ Converted(tschema, params, n).raised = ""
                        THEN Converted(tschema, params, n).value ELSE Absent]]

\* the failure classes an exception of the transport belongs to
FailureClasses == {"timeout", "network", "rate_limited", "parameter", "permission", "not_found"}

\* execute_tool_with_retry that hands the params of the caller to the transport
transport_params_raw(params, validation) == params

\* execute_tool_with_retry, the params of _execute_tool_on_server
transport_params(params, validation) == validation.converted_params

\* execute_tool_with_retry that sleeps after every failed attempt
backoff_after_each(attempt, retry_count) == TRUE

\* execute_tool_with_retry: a failed attempt is followed by asyncio.sleep(2 ** attempt)
backoff(attempt, retry_count) == attempt < retry_count - 1

CallIdle ==
    [pc |-> "idle", params |-> [n \in ParamNames |-> Absent],
     arguments |-> [n \in ParamNames |-> Absent], attempt |-> 0, invocations |-> 0,
     sleeps |-> 0, raised |-> ""]

\* execute_tool_with_retry is left: by the exception raised, or when raised is ""
\* with a NormalizedResponse of this success and error
CallExits(held, raised, success, error, errors) ==
    /\ call' = CallIdle
    /\ callRet' = <<[raised |-> raised, success |-> success, error |-> error, errors |-> errors,
                     params |-> held.params, invocations |-> held.invocations,
                     sleeps |-> held.sleeps, last |-> held.raised]>>

\* execute_tool_with_retry(tool_name, params, server_name) up to the first
\* await of _execute_tool_on_server
ExecuteCall ==
    /\ call.pc = "idle"
    /\ \E params \in ParamMaps :
        \E validation \in {validate_parameters_of(tool_schema, params)},
           held \in {[CallIdle EXCEPT !.params = params]} :
            /\ IF ~target_server.available
               THEN CallExits(held, "", FALSE, "no_server", <<>>)
               ELSE IF validation.raised /= ""
               THEN CallExits(held, validation.raised, FALSE, "", <<>>)
               ELSE IF ~validation.valid
               THEN CallExits(held, "", FALSE, "validation", validation.errors)
               ELSE IF target_server.retry_count <= 0
               THEN CallExits(held, "", FALSE, "failed_after_attempts", <<>>)
               ELSE /\ call' = [held EXCEPT !.pc = "attempt",
                                            !.arguments = transport_params(params, validation),
                                            !.invocations = 1]
                    /\ callRet' = <<>>
            /\ lastOp' = "execute_tool_with_retry"
            /\ UNCHANGED <<now, coreVars, trackVars, classifyVars, schemaVars, target_server,
                           tool_schema, discVars, lateVars>>

\* _execute_tool_on_server comes back: with a response, success or tool error,
\* or with an exception of some failure class
TransportReturn ==
    /\ call.pc = "attempt"
    /\ \E outcome \in {"success", "tool_error"} \cup FailureClasses :
        /\ IF outcome \in {"success", "tool_error"}
           THEN CallExits(call, "", outcome = "success",
                            IF outcome = "success" THEN "" ELSE "tool_error", <<>>)
           ELSE IF backoff(call.attempt, target_server.retry_count)
           THEN /\ call' = [call EXCEPT !.pc = "sleep", !.raised = outcome]
                /\ callRet' = <<>>
           ELSE CallExits([call EXCEPT !.raised = outcome], "", FALSE,
                            "failed_after_attempts", <<>>)
        /\ lastOp' = "transport"
        /\ UNCHANGED <<now, coreVars, trackVars, classifyVars, schemaVars, target_server,
                       tool_schema, discVars, lateVars>>

\* asyncio.sleep(2 ** attempt) ends and the loop goes on: the next attempt if
\* there is one, the failure response otherwise
BackoffEnds ==
    /\ call.pc = "sleep"
    /\ IF call.attempt + 1 < target_server.retry_count
       THEN /\ call' = [call EXCEPT !.pc = "attempt", !.attempt = @ + 1,
                                    !.invocations = @ + 1, !.sleeps = @ + 1]
            /\ callRet' = <<>>
       ELSE CallExits([call EXCEPT !.sleeps = @ + 1], "", FALSE, "failed_after_attempts", <<>>)
    /\ lastOp' = "sleep"
    /\ UNCHANGED <<now, coreVars, trackVars, classifyVars, schemaVars, target_server,
                   tool_schema, discVars, lateVars>>

(***************************************************************************)
(* UniversalMCPClient.discover_all_servers (mcp_universal_client.py)       *)
(*                                                                         *)
(* One task per enabled server runs discover_server_capabilities; the      *)
(* tasks interleave at their awaits, and discover_all_servers returns      *)
(* self.capabilities when asyncio.gather has seen every task end.          *)
(***************************************************************************)
DiscServers == {"d1", "d2", "d3"}

\* the tools session.list_tools() of a server answers with
RemoteTools == [d1 |-> <<"build", "status">>, d2 |-> <<"deploy">>, d3 |-> <<"logs">>]

\* discover_all_servers that makes a task for every configured server
discovery_tasks_all(enabled) == DiscServers

\* discover_all_servers, the servers a task is created for
discovery_tasks(enabled) == {s \in DiscServers : enabled[s]}

\* discover_all_servers() up to asyncio.gather; with no task it returns at once
DiscoverAllServers ==
    /\ discovery.pc = "idle"
    /\ contacted' = {}
    /\ IF discovery_tasks(server_enabled) = {}
       THEN /\ discovery' = [pc |-> "idle", tasks |-> [s \in DiscServers |-> "none"]]
            /\ discRet' = <<capabilities>>
       ELSE /\ discovery' = [pc |-> "gather",
                             tasks |-> [s \in DiscServers |->
                                            IF s \in discovery_tasks(server_enabled)
                                            THEN "running" ELSE "none"]]
            /\ discRet' = <<>>
    /\ lastOp' = "discover_all_servers"
    /\ UNCHANGED <<now, coreVars, trackVars, classifyVars, schemaVars, callVars, server_enabled,
                   capabilities, discovery_health, lateVars>>

\* the task of a server runs discover_server_capabilities(server): the session
\* is opened and the tools are listed and cached, or an exception is caught
DiscoverServerCapabilities ==
    \E s \in DiscServers, ok \in BOOLEAN :
        /\ discovery.tasks[s] = "running"
        /\ contacted' = contacted \cup {s}
        /\ IF ok
           THEN /\ capabilities' = [capabilities EXCEPT ![s] = <<RemoteTools[s]>>]
                /\ discovery_health' = [discovery_health EXCEPT ![s] = "True"]
                /\ discovery' = [discovery EXCEPT !.tasks[s] = "ok"]
           ELSE /\ capabilities' = capabilities
                /\ discovery_health' = [discovery_health EXCEPT ![s] = "False"]
                /\ discovery' = [discovery EXCEPT !.tasks[s] = "failed"]
        /\ discRet' = <<>>
        /\ lastOp' = "discover_server_capabilities"
        /\ UNCHANGED <<now, coreVars, trackVars, classifyVars, schemaVars, callVars,
                       server_enabled, lateVars>>

\* asyncio.gather has every task ended: discover_all_servers returns self.capabilities
GatherReturns ==
    /\ discovery.pc = "gather"
    /\ \A s \in DiscServers : discovery.tasks[s] /= "running"
    /\ discovery' = [discovery EXCEPT !.pc = "idle"]
    /\ discRet' = <<capabilities>>
    /\ lastOp' = "gather"
    /\ UNCHANGED <<now, coreVars, trackVars, classifyVars, schemaVars, callVars, server_enabled,
                   capabilities, discovery_health, contacted, lateVars>>

\* a client as constructed: nothing discovered, no health known
InitDiscovery ==
    /\ capabilities = [s \in DiscServers |-> <<>>]
    /\ discovery_health = [s \in DiscServers |-> "unset"]
    /\ discovery = [pc |-> "idle", tasks |-> [s \in DiscServers |-> "none"]]
    /\ contacted = {}
    /\ discRet = <<>>

(***************************************************************************)
(* PerformanceManager.batched_operation (performance_manager.py)           *)
(*                                                                         *)
(* A submitter is a coroutine that calls batched_operation once.  The part *)
(* of a call before the lock of its key touches nothing shared, so a call  *)
(* starts where it gets the lock.  _process_batch runs with the lock held  *)
(* from its copy of the queue to the return of the processor.  A future is *)
(* none before the call, then pending, then a result or an exception.      *)
(***************************************************************************)
_batch_size == 2             \* PerformanceManager._batch_size of the manager under test

BatchKeys == {"q1", "q2"}

Submitters == {"a", "b", "c"}

\* the elements of the list a batch processor returns
BatchOutputs == {"x", "y"}

\* _process_batch that hands the outputs out from the last item to the first
resolve_reversed(batch_items, outcome, results) ==
    [i \in 1..Len(batch_items) |->
        IF outcome = "raise" THEN [state |-> "exception", value |-> "processor"]
        ELSE IF Len(batch_items) - i < Len(results)
        THEN [state |-> "result", value |-> results[Len(batch_items) - i + 1]]
        ELSE [state |-> "exception", value |-> "IndexError"]]

\* _process_batch whose except clause fails the first future only
resolve_first_failed(batch_items, outcome, results) ==
    [i \in 1..Len(batch_items) |->
        IF outcome = "raise"
        THEN IF i = 1 THEN [state |-> "exception", value |-> "processor"]
             ELSE [state |-> "pending", value |-> ""]
        ELSE IF i <= Len(results) THEN [state |-> "result", value |-> results[i]]
        ELSE [state |-> "exception", value |-> "IndexError"]]

\* _process_batch, "Set results" and "Set error for all futures": what the
\* future of the i-th item of the batch is set to
resolve(batch_items, outcome, results) ==
    [i \in 1..Len(batch_items) |->
        IF outcome = "raise" THEN [state |-> "exception", value |-> "processor"]
        ELSE IF i <= Len(results) THEN [state |-> "result", value |-> results[i]]
        ELSE [state |-> "exception", value |-> "IndexError"]]

\* _process_batch(batch_key, batch_processor) up to the await of the processor,
\* called by a submitter ("size") or by the timer task ("timer"): the queue is
\* copied and cleared, the timer task cancelled and forgotten
ProcessBatch(k, queue, by) ==
    /\ processing' = [processing EXCEPT ![k] = <<[items |-> queue, by |-> by]>>]
    /\ _batch_queues' = [_batch_queues EXCEPT ![k] = <<>>]
    /\ _batch_timers' = [_batch_timers EXCEPT ![k] = "none"]

\* batched_operation(batch_key, operation_data, batch_processor) from the lock
\* to the await of the future
BatchedOperation ==
    \E s \in Submitters, k \in BatchKeys :
        /\ futures[s].state = "none"
        /\ processing[k] = <<>>
        /\ futures' = [futures EXCEPT ![s] =
                [state |-> "pending", value |-> "", key |-> k,
                 order |-> Cardinality({t \in Submitters : futures[t].state /= "none"}) + 1]]
        /\ IF Len(_batch_queues[k]) + 1 >= _batch_size
           THEN ProcessBatch(k, Append(_batch_queues[k], s), "size")
           ELSE /\ _batch_queues' = [_batch_queues EXCEPT ![k] = Append(@, s)]
                /\ _batch_timers' = [_batch_timers EXCEPT ![k] =
                                        IF @ = "none" THEN "sleeping" ELSE @]
                /\ processing' = processing
        /\ batches' = batches
        /\ lastOp' = "batched_operation"
        /\ UNCHANGED <<now, coreVars, midVars, recVars, opVars>>

\* asyncio.sleep(timeout) of _batch_timeout_handler ends
BatchTimeoutElapses ==
    \E k \in BatchKeys :
        /\ _batch_timers[k] = "sleeping"
        /\ _batch_timers' = [_batch_timers EXCEPT ![k] = "ready"]
        /\ lastOp' = "batch_timeout"
        /\ UNCHANGED <<now, coreVars, midVars, recVars, opVars, _batch_queues, processing, futures, batches>>

\* _batch_timeout_handler gets the lock of its key: it processes the queue, or
\* ends when the queue is empty
BatchTimeoutHandler ==
    \E k \in BatchKeys :
        /\ _batch_timers[k] = "ready"
        /\ processing[k] = <<>>
        /\ IF _batch_queues[k] /= <<>>
           THEN ProcessBatch(k, _batch_queues[k], "timer")
           ELSE /\ _batch_timers' = [_batch_timers EXCEPT ![k] = "done"]
                /\ UNCHANGED <<_batch_queues, processing>>
        /\ lastOp' = "_batch_timeout_handler"
        /\ UNCHANGED <<now, coreVars, midVars, recVars, opVars, futures, batches>>

\* the await of the processor is over.  The processor returns a list or raises;
\* or, in the timer task, it suspends: the task has cancelled itself in
\* _process_batch, so CancelledError is raised at that await, which
\* "except Exception" does not catch, and no future is set.
ProcessorReturns ==
    \E k \in BatchKeys :
        /\ processing[k] /= <<>>
        /\ \E outcome \in {"return", "raise", "cancelled"},
              results \in UNION {[1..n -> BatchOutputs] : n \in 0..Len(processing[k][1].items)} :
            /\ outcome = "cancelled" => processing[k][1].by = "timer"
            /\ outcome /= "return" => results = <<>>
            /\ futures' =
                    [s \in Submitters |->
                        IF outcome /= "cancelled"
                           /\ \E i \in 1..Len(processing[k][1].items) :
                                    processing[k][1].items[i] = s
                        THEN LET i == CHOOSE j \in 1..Len(processing[k][1].items) :
                                            processing[k][1].items[j] = s
                                 to == resolve(processing[k][1].items, outcome, results)[i]
                             IN  [futures[s] EXCEPT !.state = to.state, !.value = to.value]
                        ELSE futures[s]]
            /\ batches' = Append(batches, [key |-> k, items |-> processing[k][1].items,
                                           by |-> processing[k][1].by, outcome |-> outcome,
                                           results |-> results])
        /\ processing' = [processing EXCEPT ![k] = <<>>]
        /\ lastOp' = "_process_batch"
        /\ UNCHANGED <<now, coreVars, midVars, recVars, opVars, _batch_queues, _batch_timers>>

\* PerformanceManager.__init__: no queue, no timer
InitBatch ==
    /\ _batch_queues = [k \in BatchKeys |-> <<>>]
    /\ _batch_timers = [k \in BatchKeys |-> "none"]
    /\ processing = [k \in BatchKeys |-> <<>>]
    /\ futures = [s \in Submitters |-> [state |-> "none", value |-> "", key |-> "", order |-> 0]]
    /\ batches = <<>>

(***************************************************************************)
(* RecoveryManager.handle_failure (recovery_manager.py)                    *)
(*                                                                         *)
(* The failures are those of one tool, so a circuit key "tool:type" is its *)
(* failure type.  estimated_success_rate is in thousandths.  What an       *)
(* action creator decides from the registry, the parameters or the         *)
(* conversation is left open: it may give any of the actions it has.       *)
(***************************************************************************)
MaxAttemptCount == 3         \* FailureContext.attempt_count in 0..MaxAttemptCount
MaxRecords == 6              \* handle_failure records at most MaxRecords recovery attempts
MaxRecoveryTime == 450       \* the clock of the recovery specification runs to MaxRecoveryTime

\* the error texts of the failures handled
RecoveryErrors == {<<"exist">>, <<"rate", "limit">>, <<"tool", "not", "found">>}

FailureTypes == {failure_patterns[i].failure_type : i \in 1..Len(failure_patterns)} \cup {"unknown"}

\* RecoveryManager._find_recovery_pattern: recovery_strategy, max_retries and
\* success_probability of the first pattern of the type, or of the fallback pattern
_find_recovery_pattern(type) ==
    LET pattern(strategy, max_retries, probability) ==
            [recovery_strategy |-> strategy, max_retries |-> max_retries,
             success_probability |-> probability]
    IN  CASE type = "tool_not_found" -> pattern("retry_with_fallback", 1, 800)
          [] type = "parameter_error" -> pattern("modify_parameters", 2, 700)
          [] type = "permission_denied" -> pattern("request_user_input", 1, 300)
          [] type = "timeout" -> pattern("retry_same", 3, 600)
          [] type = "server_error" -> pattern("retry_with_fallback", 2, 400)
          [] type = "resource_not_found" -> pattern("modify_parameters", 2, 500)
          [] type = "rate_limited" -> pattern("retry_same", 3, 800)
          [] type = "network_error" -> pattern("retry_with_fallback", 2, 600)
          [] OTHER -> pattern("retry_same", 1, 300)

RecoveryAction(strategy, estimated_success_rate) ==
    [strategy |-> strategy, estimated_success_rate |-> estimated_success_rate]

\* _create_retry_same_action that gives up only past max_retries
_create_retry_same_action_late(attempt_count, pattern) ==
    IF attempt_count > pattern.max_retries THEN RecoveryAction("abandon_goal", 0)
    ELSE RecoveryAction("retry_same",
                        (pattern.success_probability * <<1000, 800, 640, 512, 409>>[attempt_count + 1])
                            \div 1000)

\* RecoveryManager._create_retry_same_action; 0.8 ** attempt_count in thousandths
_create_retry_same_action(attempt_count, pattern) ==
    IF attempt_count >= pattern.max_retries THEN RecoveryAction("abandon_goal", 0)
    ELSE RecoveryAction("retry_same",
                        (pattern.success_probability * <<1000, 800, 640>>[attempt_count + 1])
                            \div 1000)

\* RecoveryManager._generate_recovery_action: the actions the creator of the
\* strategy can return for a step that has a tool name
_generate_recovery_action(attempt_count, pattern) ==
    CASE pattern.recovery_strategy = "retry_same" ->
            {_create_retry_same_action(attempt_count, pattern)}
      [] pattern.recovery_strategy = "retry_with_fallback" ->
            {RecoveryAction("graceful_degradation", 600), RecoveryAction("retry_with_fallback", 700)}
      [] pattern.recovery_strategy = "modify_parameters" ->
            {RecoveryAction("request_user_input", 300), RecoveryAction("modify_parameters", 800)}
      [] pattern.recovery_strategy = "request_user_input" ->
            {RecoveryAction("request_user_input", 700)}
      [] OTHER -> {RecoveryAction("abandon_goal", 0)}

\* _is_circuit_breaker_open that never finds a breaker open
_is_circuit_breaker_open_never(breakers, key, t) == [ret |-> FALSE, breakers |-> breakers]

\* RecoveryManager._is_circuit_breaker_open: what it returns and the breakers after it
_is_circuit_breaker_open(breakers, key, t) ==
    IF breakers[key] = <<>> THEN [ret |-> FALSE, breakers |-> breakers]
    ELSE IF breakers[key][1].state /= "open" THEN [ret |-> FALSE, breakers |-> breakers]
    ELSE IF t - breakers[key][1].opened_at[1] > breakers[key][1].timeout
    THEN [ret |-> FALSE, breakers |-> [breakers EXCEPT ![key][1].state = "half-open"]]
    ELSE [ret |-> TRUE, breakers |-> breakers]

\* RecoveryManager._update_circuit_breaker
_update_circuit_breaker(breakers, key, recovery_action, t) ==
    LET circuit_state ==
            IF breakers[key] = <<>>
            THEN [failure_count |-> 0, success_count |-> 0, state |-> "closed",
                  opened_at |-> <<>>, timeout |-> 300]
            ELSE breakers[key][1]
        updated ==
            IF recovery_action.estimated_success_rate < 300
            THEN IF circuit_state.failure_count + 1 >= 5 /\ circuit_state.state = "closed"
                 THEN [circuit_state EXCEPT !.failure_count = @ + 1, !.state = "open",
                                            !.opened_at = <<t>>]
                 ELSE [circuit_state EXCEPT !.failure_count = @ + 1]
            ELSE IF recovery_action.estimated_success_rate > 700
            THEN IF circuit_state.success_count + 1 >= 3
                 THEN [circuit_state EXCEPT !.success_count = @ + 1, !.failure_count = 0,
                                            !.state = "closed", !.opened_at = <<>>]
                 ELSE [circuit_state EXCEPT !.success_count = @ + 1]
            ELSE circuit_state
    IN  [breakers EXCEPT ![key] = <<updated>>]

\* the number of records in a recovery history
RECURSIVE Records(_, _)
Records(history, types) ==
    IF types = {} THEN 0
    ELSE LET type == CHOOSE x \in types : TRUE
         IN  history[type] + Records(history, types \ {type})

\* RecoveryManager.handle_failure(failure_context, conversation_state)
HandleFailure ==
    \E error \in RecoveryErrors, attempt_count \in 0..MaxAttemptCount :
        \E type \in {_classify_failure(error)} :
            \E checked \in {_is_circuit_breaker_open(circuit_breakers, type, now)} :
                /\ IF checked.ret
                   THEN /\ recRet' = <<[action |-> RecoveryAction("graceful_degradation", 800),
                                        failure_type |-> type,
                                        attempt_count |-> attempt_count]>>
                        /\ circuit_breakers' = checked.breakers
                        /\ recovery_history' = recovery_history
                   ELSE /\ Records(recovery_history, FailureTypes) < MaxRecords
                        /\ \E recovery_action \in
                                _generate_recovery_action(attempt_count,
                                                          _find_recovery_pattern(type)) :
                            /\ recRet' = <<[action |-> recovery_action, failure_type |-> type,
                                            attempt_count |-> attempt_count]>>
                            /\ circuit_breakers' =
                                    _update_circuit_breaker(checked.breakers, type,
                                                            recovery_action, now)
                            /\ recovery_history' = [recovery_history EXCEPT ![type] = @ + 1]
                /\ lastOp' = "handle_failure"
                /\ UNCHANGED <<now, coreVars, midVars, batchVars, opVars>>

\* time.time() advances between two failures
RecoveryTick ==
    /\ now + 150 <= MaxRecoveryTime
    /\ now' = now + 150
    /\ recRet' = <<>>
    /\ lastOp' = "tick"
    /\ UNCHANGED <<coreVars, midVars, batchVars, opVars, circuit_breakers, recovery_history>>

\* RecoveryManager.__init__: no breaker, no history
InitRecovery ==
    /\ circuit_breakers = [type \in FailureTypes |-> <<>>]
    /\ recovery_history = [type \in FailureTypes |-> 0]
    /\ recRet = <<>>

(***************************************************************************)
(* PerformanceManager.cached_operation (performance_manager.py)            *)
(*                                                                         *)
(* A key of Keys is the cache key "prefix:key".  The metrics are a         *)
(* defaultdict whose factory is the PerformanceMetrics class.              *)
(***************************************************************************)
\* operation.__name__ of the operations passed to cached_operation
OperationNames == {"slow_operation", "list_jobs"}

\* self.metrics[operation_name] in _record_cache_hit and _record_cache_miss: a name
\* without an entry calls PerformanceMetrics(), which lacks its operation_name
metrics_entry(entries, operation_name) ==
    IF operation_name \in entries THEN Returns(operation_name) ELSE Raises("TypeError")

\* PerformanceManager.cached_operation; were an operation ever started, it would
\* return any value or raise
CachedOperation ==
    \E key \in Keys, operation_name \in OperationNames, ttl \in Ttls :
        \E r \in {get(CacheState, key, now)} :
            /\ IF metrics_entry(pm_metrics, operation_name).raised /= ""
               THEN /\ Install(r.st)
                    /\ evicted' = <<>>
                    /\ opRet' = <<[key |-> key, outcome |-> "raise",
                                   value |-> <<metrics_entry(pm_metrics, operation_name).raised>>,
                                   invoked |-> FALSE]>>
               ELSE IF r.ret /= <<>>
               THEN /\ Install(r.st)
                    /\ evicted' = <<>>
                    /\ opRet' = <<[key |-> key, outcome |-> "return", value |-> r.ret,
                                   invoked |-> FALSE]>>
               ELSE \/ \E result \in Values :
                        \E w \in {set(r.st, key, result, ttl, now)} :
                            /\ Install(w.st)
                            /\ evicted' = w.evicted
                            /\ opRet' = <<[key |-> key, outcome |-> "return",
                                           value |-> <<result>>, invoked |-> TRUE]>>
                    \/ /\ Install(r.st)
                       /\ evicted' = <<>>
                       /\ opRet' = <<[key |-> key, outcome |-> "raise",
                                      value |-> <<"Exception">>, invoked |-> TRUE]>>
            /\ cacheCall' = [key |-> key, value |-> <<>>, ok |-> r.ret /= <<>>, got |-> r.ret,
                             stale |-> key \in DOMAIN cache /\ cache[key].expires_at /= <<>>
                                       /\ now > cache[key].expires_at[1]]
            /\ pm_metrics' = pm_metrics
            /\ lastOp' = "cached_operation"
            /\ UNCHANGED <<now, cbVars, execVars, poolVars, regVars, midVars, batchVars, recVars>>

\* PerformanceManager.__init__: the metrics have no entry
InitCachedOperation ==
    /\ pm_metrics = {}
    /\ opRet = <<>>

\* the components of the last sections, as constructed
InitLate ==
    /\ InitBatch
    /\ InitRecovery
    /\ InitCachedOperation

\* the components of the later sections, as constructed
InitMore ==
    /\ InitTrack
    /\ InitClassify
    /\ InitSchema
    /\ target_server = [retry_count |-> 3, available |-> TRUE]
    /\ tool_schema = [parameters |-> [limit |-> "integer"], required |-> {}]
    /\ call = CallIdle
    /\ callRet = <<>>
    /\ server_enabled = [s \in DiscServers |-> TRUE]
    /\ InitDiscovery
    /\ InitLate

(***************************************************************************)
(* Specifications                                                          *)
(***************************************************************************)
vars == <<now, lastOp, coreVars, moreVars>>

CbCfgs ==
    [failure_threshold : 1..MaxThreshold, success_threshold : 1..MaxThreshold,
     timeout : 1..MaxTimeout]

InitCircuit ==
    /\ cb = CircuitBreakerInit
    /\ lastAllow = TRUE
    /\ probes = 0
    /\ consecFailures = 0
    /\ prevCb = Prev(CircuitBreakerInit)

InitExec ==
    /\ server_health = [s \in ServerNames |-> FALSE]
    /\ tools_cache = {}
    /\ exec = ExecIdle
    /\ response = [success |-> FALSE, error |-> None, server_name |-> None]

\* the breaker on its own, driven through the ErrorManagementSystem entry points
Init ==
    /\ now = 0
    /\ lastOp = "init"
    /\ cbCfg \in CbCfgs
    /\ InitCircuit
    /\ InitExec
    /\ InitCache
    /\ InitPool
    /\ InitRegistry
    /\ InitMore

Next ==
    \/ Tick
    \/ ShouldAllowRequest
    \/ RecordSuccess
    \/ RecordFailure

Spec == Init /\ [][Next]_vars

\* the execution path beside the breaker registered for the tool
InitExecSpec ==
    /\ now = 0
    /\ lastOp = "init"
    /\ cbCfg = [failure_threshold |-> 2, success_threshold |-> 1, timeout |-> 1]
    /\ InitCircuit
    /\ InitExec
    /\ InitCache
    /\ InitPool
    /\ InitRegistry
    /\ InitMore

NextExec ==
    \/ Tick
    \/ ShouldAllowRequest
    \/ RecordSuccess
    \/ RecordFailure
    \/ DiscoverServer
    \/ HealthCheck
    \/ ExecuteToolWithRetry
    \/ TransportAttempt

SpecExec == InitExecSpec /\ [][NextExec]_vars

\* the cache on its own
InitCacheSpec ==
    /\ now = 0
    /\ lastOp = "init"
    /\ cbCfg = [failure_threshold |-> 5, success_threshold |-> 3, timeout |-> 60]
    /\ InitCircuit
    /\ InitExec
    /\ InitCache
    /\ InitPool
    /\ InitRegistry
    /\ InitMore

NextCache ==
    \/ CacheTick
    \/ CacheSet
    \/ CacheGet
    \/ CacheDelete
    \/ CacheClear
    \/ CacheCleanup

SpecCache == InitCacheSpec /\ [][NextCache]_vars

\* one connection pool and its callers
InitPoolSpec ==
    /\ now = 0
    /\ lastOp = "init"
    /\ cbCfg = [failure_threshold |-> 5, success_threshold |-> 3, timeout |-> 60]
    /\ InitCircuit
    /\ InitExec
    /\ InitCache
    /\ InitPool
    /\ InitRegistry
    /\ InitMore

NextPool ==
    \/ SetConnectionFactory
    \/ Acquire
    \/ AcquireLocked
    \/ FactoryReturn
    \/ Operation
    \/ ReleaseCall
    \/ ReleaseLocked
    \/ CloseConnection
    \/ CloseBegin
    \/ CloseEnd

SpecPool == InitPoolSpec /\ [][NextPool]_vars

\* the tool registry over the two servers of the client
InitRegistrySpec ==
    /\ now = 0
    /\ lastOp = "init"
    /\ cbCfg = [failure_threshold |-> 5, success_threshold |-> 3, timeout |-> 60]
    /\ InitCircuit
    /\ InitExec
    /\ InitCache
    /\ InitPool
    /\ InitRegistry
    /\ InitMore

NextRegistry ==
    \/ RegTick
    \/ DiscoverTools
    \/ RegHealthCheck
    \/ SelectOptimalTool
    \/ ExecuteWithFallback
    \/ AttemptReturn

SpecRegistry == InitRegistrySpec /\ [][NextRegistry]_vars

\* the components of the earlier sections, as constructed
InitCore ==
    /\ now = 0
    /\ lastOp = "init"
    /\ cbCfg = [failure_threshold |-> 5, success_threshold |-> 3, timeout |-> 60]
    /\ InitCircuit
    /\ InitExec
    /\ InitCache
    /\ InitPool
    /\ InitRegistry

\* one ToolPerformance entry and the executions recorded for it
InitTrackingSpec ==
    /\ InitCore
    /\ InitMore

NextTracking ==
    \/ RecordExecution

SpecTracking == InitTrackingSpec /\ [][NextTracking]_vars

\* failure classification on its own
InitClassifySpec ==
    /\ InitCore
    /\ InitTrack
    /\ error_message \in ErrorMessages
    /\ failure_type = "unknown"
    /\ InitSchema
    /\ target_server = [retry_count |-> 3, available |-> TRUE]
    /\ tool_schema = [parameters |-> [limit |-> "integer"], required |-> {}]
    /\ call = CallIdle
    /\ callRet = <<>>
    /\ server_enabled = [s \in DiscServers |-> TRUE]
    /\ InitDiscovery
    /\ InitLate

NextClassify ==
    \/ ClassifyFailure

SpecClassify == InitClassifySpec /\ [][NextClassify]_vars

\* schema normalization on its own
InitNormalizeSpec ==
    /\ InitCore
    /\ InitMore

NextNormalize ==
    \/ NormalizeToolSchema

SpecNormalize == InitNormalizeSpec /\ [][NextNormalize]_vars

\* execute_tool_with_retry for one tool on one server, for every retry_count,
\* every schema of the tool, the server found or not
InitCallSpec ==
    /\ InitCore
    /\ InitTrack
    /\ InitClassify
    /\ InitSchema
    /\ target_server \in [retry_count : 0..MaxRetryCount, available : BOOLEAN]
    /\ tool_schema \in ToolSchemas
    /\ call = CallIdle
    /\ callRet = <<>>
    /\ server_enabled = [s \in DiscServers |-> TRUE]
    /\ InitDiscovery
    /\ InitLate

NextCall ==
    \/ ExecuteCall
    \/ TransportReturn
    \/ BackoffEnds

SpecCall == InitCallSpec /\ [][NextCall]_vars

\* discover_all_servers for every choice of the enabled servers
InitDiscoverySpec ==
    /\ InitCore
    /\ InitTrack
    /\ InitClassify
    /\ InitSchema
    /\ target_server = [retry_count |-> 3, available |-> TRUE]
    /\ tool_schema = [parameters |-> [limit |-> "integer"], required |-> {}]
    /\ call = CallIdle
    /\ callRet = <<>>
    /\ server_enabled \in [DiscServers -> BOOLEAN]
    /\ InitDiscovery
    /\ InitLate

NextDiscovery ==
    \/ DiscoverAllServers
    \/ DiscoverServerCapabilities
    \/ GatherReturns

SpecDiscovery == InitDiscoverySpec /\ [][NextDiscovery]_vars

\* cached operations over the cache
NextCachedOperation ==
    \/ NextCache
    \/ CachedOperation

SpecCachedOperation == InitCacheSpec /\ [][NextCachedOperation]_vars

\* the recovery manager on its own
InitRecoverySpec ==
    /\ InitCore
    /\ InitMore

NextRecovery ==
    \/ HandleFailure
    \/ RecoveryTick

SpecRecovery == InitRecoverySpec /\ [][NextRecovery]_vars

\* request batching on its own
InitBatchSpec ==
    /\ InitCore
    /\ InitMore

NextBatch ==
    \/ BatchedOperation
    \/ BatchTimeoutElapses
    \/ BatchTimeoutHandler
    \/ ProcessorReturns

SpecBatch == InitBatchSpec /\ [][NextBatch]_vars

\* a sleep ends, a task that is ready gets its lock, and an awaited processor
\* comes back or is cancelled
FairSpecBatch ==
    /\ SpecBatch
    /\ WF_vars(BatchTimeoutElapses)
    /\ WF_vars(BatchTimeoutHandler)
    /\ WF_vars(ProcessorReturns)

\* an awaited _execute_tool_on_server comes back, with a response or an
\* exception, and an asyncio.sleep ends
FairSpecCall == SpecCall /\ WF_vars(TransportReturn) /\ WF_vars(BackoffEnds)

(***************************************************************************)
(* Properties of the circuit breaker                                       *)
(***************************************************************************)

\* C1: once failure_threshold record_failure calls have been made in a row the
\* breaker is open, and a should_allow_request call on an open breaker returns
\* False and leaves it open unless more than timeout seconds have passed since
\* the last recorded failure.
C1_OpenRejectsUntilTimeout ==
    /\ [](consecFailures >= cbCfg.failure_threshold => cb.state = "open")
    /\ [][(/\ lastOp' = "should_allow_request"
           /\ cb.state = "open"
           /\ now - cb.last_failure_time <= cbCfg.timeout)
          => (lastAllow' = FALSE /\ cb'.state = "open")]_vars

\* a request is rejected exactly timeout seconds after the failure that opened the breaker
C1_Witness ==
    /\ lastOp = "should_allow_request"
    /\ lastAllow = FALSE
    /\ cb.state = "open"
    /\ cb.failure_count >= cbCfg.failure_threshold
    /\ now - cb.last_failure_time = cbCfg.timeout

\* C2: after the open timeout the breaker admits a single probe: while it is
\* half-open and no outcome has been recorded since, at most one
\* should_allow_request call has returned True.
C2_SingleProbe ==
    cb.state = "half_open" => probes <= 1

\* C3: no transport invocation of the tool is made while the breaker
\* registered for the tool is open and its timeout has not elapsed.
C3_NoInvocationWhileOpen ==
    [][lastOp' = "transport" => ~BreakerRejects(cb, cbCfg, now)]_vars

\* C4: a closed breaker has failure_count below failure_threshold, and it
\* moves from closed to open in exactly the record_failure call that brings
\* failure_count to failure_threshold.
C4_ClosedBelowThreshold ==
    /\ [](cb.state = "closed" => cb.failure_count < cbCfg.failure_threshold)
    /\ [][(cb.state = "closed" /\ cb'.state /= "closed")
          => (/\ lastOp' = "record_failure"
              /\ cb'.state = "open"
              /\ cb'.failure_count = cbCfg.failure_threshold)]_vars
    /\ [][(/\ cb.state = "closed"
           /\ lastOp' = "record_failure"
           /\ cb.failure_count + 1 >= cbCfg.failure_threshold)
          => cb'.state = "open"]_vars

\* a breaker with threshold 2 has just opened although a success was recorded on the way
C4_Witness ==
    /\ lastOp = "record_failure"
    /\ prevCb.state = "closed"
    /\ cb.state = "open"
    /\ cbCfg.failure_threshold = 2
    /\ cb.last_success_time > 0
    /\ cb.last_success_time <= cb.last_failure_time

\* C5: a record_failure on a half-open breaker opens it with success_count 0,
\* and success_count is 0 whenever the breaker is not half-open, so a later
\* half-open period starts counting from 0.
C5_HalfOpenFailureReopens ==
    /\ (lastOp = "record_failure" /\ prevCb.state = "half_open")
        => (cb.state = "open" /\ cb.success_count = 0)
    /\ cb.state /= "half_open" => cb.success_count = 0

\* a half-open breaker that had counted a success was re-opened by a failure
C5_Witness ==
    /\ lastOp = "record_failure"
    /\ prevCb.state = "half_open"
    /\ prevCb.success_count > 0
    /\ cb.state = "open"

\* C6: a half-open breaker closes in exactly the record_success call that
\* brings success_count to success_threshold, never with fewer successes,
\* and closing resets failure_count and success_count to 0.
C6_HalfOpenClosesAtThreshold ==
    /\ (prevCb.state = "half_open" /\ cb.state = "closed")
        => (/\ lastOp = "record_success"
            /\ prevCb.success_count + 1 = cbCfg.success_threshold
            /\ cb.failure_count = 0
            /\ cb.success_count = 0)
    /\ (/\ prevCb.state = "half_open"
        /\ lastOp = "record_success"
        /\ prevCb.success_count + 1 >= cbCfg.success_threshold)
        => cb.state = "closed"
    /\ cb.state = "half_open" => cb.success_count < cbCfg.success_threshold

\* the second success of a half-open breaker with success_threshold 2 closed it
C6_Witness ==
    /\ lastOp = "record_success"
    /\ prevCb.state = "half_open"
    /\ prevCb.success_count = 1
    /\ cbCfg.success_threshold = 2
    /\ cb.state = "closed"

(***************************************************************************)
(* Properties of the cache                                                 *)
(***************************************************************************)

\* the expiry time of an item has passed
Expired(item, t) == item.expires_at /= <<>> /\ t > item.expires_at[1]

EvictedKeys(ev) == {ev[i].key : i \in 1..Len(ev)}

\* C7: the cache never holds more than max_size items and its tracked byte
\* total never exceeds the byte budget.
C7_CacheWithinBudget ==
    /\ Cardinality(DOMAIN cache) <= max_size
    /\ size_bytes <= max_size_bytes

\* a set that had to evict left the cache full in items or in bytes
C7_Witness ==
    /\ lastOp = "set"
    /\ cacheCall.ok
    /\ evicted /= <<>>
    /\ (Cardinality(DOMAIN cache) = max_size \/ size_bytes = max_size_bytes)

\* C8: get returns the stored value of a present, unexpired item and keeps
\* it; for an absent or expired item it reports a miss and the item is gone
\* afterwards; a set that returns True stores its value under its key,
\* unexpired, and no operation changes the value or expiry of another item.
C8_GetFresh ==
    [][/\ lastOp' = "get" =>
            LET k == cacheCall'.key IN
            IF k \in DOMAIN cache /\ ~Expired(cache[k], now)
            THEN /\ cacheCall'.got = <<cache[k].value>>
                 /\ k \in DOMAIN cache'
            ELSE /\ cacheCall'.got = <<>>
                 /\ k \notin DOMAIN cache'
       /\ (lastOp' = "set" /\ cacheCall'.ok) =>
            LET k == cacheCall'.key IN
            /\ k \in DOMAIN cache'
            /\ cache'[k].value = cacheCall'.value[1]
            /\ ~Expired(cache'[k], now)
       /\ \A k \in DOMAIN cache \cap DOMAIN cache' :
            (lastOp' = "set" /\ k = cacheCall'.key)
            \/ (cache'[k].value = cache[k].value /\ cache'[k].expires_at = cache[k].expires_at)
      ]_vars

\* a get found its item expired before any cleanup ran and reported a miss
C8_Witness ==
    /\ lastOp = "get"
    /\ cacheCall.got = <<>>
    /\ cacheCall.stale
    /\ cacheCall.key \notin DOMAIN cache

\* C9: a set of a new key on a cache at item capacity evicts the key whose
\* last access is oldest, every key it evicts was accessed no later than every
\* key it keeps, and it evicts that one key only when the value then fits the
\* byte budget; a successful get stamps the item with the current time and
\* takes it off the front of the eviction order.
C9_EvictsOldestAccess ==
    [][/\ (/\ lastOp' = "set"
           /\ cacheCall'.key \notin DOMAIN cache
           /\ Cardinality(DOMAIN cache) = max_size
           /\ max_size >= 1) =>
            LET gone == EvictedKeys(evicted') IN
            /\ Len(evicted') >= 1
            /\ \A k \in DOMAIN cache :
                    cache[evicted'[1].key].last_accessed <= cache[k].last_accessed
            /\ \A g \in gone, k \in DOMAIN cache \ gone :
                    cache[g].last_accessed <= cache[k].last_accessed
            /\ DOMAIN cache' \ {cacheCall'.key} = DOMAIN cache \ gone
            /\ (size_bytes - cache[evicted'[1].key].size_bytes
                    + SizeBytes(cacheCall'.value[1]) <= max_size_bytes)
                => Len(evicted') = 1
       /\ (lastOp' = "get" /\ cacheCall'.ok) =>
            LET k == cacheCall'.key IN
            /\ cache'[k].last_accessed = now
            /\ Len(access_order') >= 2 => Head(access_order') /= k
            /\ access_order'[Len(access_order')] = k
      ]_vars

\* a new key was stored in a full cache at the cost of exactly one other key
C9_Witness ==
    /\ lastOp = "set"
    /\ cacheCall.ok
    /\ Len(evicted) = 1
    /\ evicted[1].key /= cacheCall.key
    /\ Cardinality(DOMAIN cache) = max_size
    /\ \E k \in DOMAIN cache : cache[k].last_accessed < now

\* the victim the eviction policy of C10 names: the least recently used of the
\* unexpired items, or with none unexpired an item that expires earliest
ClaimedVictims(c, ord, t) ==
    LET live == SelectSeq(ord, LAMBDA k : ~Expired(c[k], t)) IN
    IF live /= <<>> THEN {Head(live)}
    ELSE {k \in DOMAIN c : \A j \in DOMAIN c : c[k].expires_at[1] <= c[j].expires_at[1]}

Idle == {_pool[i] : i \in 1..Len(_pool)}

\* lastOp after the step in which acquire ran from the lock on, and after a failed acquire
AcquireBodyExits ==
    {"acquire:return", "acquire:factory", "acquire:exhausted", "acquire:factory_not_set"}
AcquireFailures ==
    {"acquire:closed", "acquire:exhausted", "acquire:factory_not_set", "acquire:timeout"}

\* C11: under any interleaving of acquire and release calls on one pool the
\* number of connections in use never exceeds max_connections, and idle plus
\* in-use connections never exceed max_connections.
C11_PoolWithinMax ==
    /\ Cardinality(_used_connections) <= max_connections
    /\ Len(_pool) + Cardinality(_used_connections) <= max_connections

\* an acquire has just failed for exhaustion while other callers use max_connections connections
C11_Witness ==
    /\ lastOp = "acquire:exhausted"
    /\ Cardinality(_used_connections) = max_connections

\* C12: acquire hands out an idle connection when one exists, creates a new
\* one only when none is idle and fewer than max_connections are in use, and
\* otherwise fails at once with the exhaustion error, no caller left waiting;
\* a failed acquire (closed pool, exhaustion, missing factory, factory
\* timeout) leaves the idle list and the in-use set as they were.
C12_AcquireOutcome ==
    [][ /\ (lastOp' \in AcquireBodyExits /\ _pool /= <<>>) =>
            /\ lastOp' = "acquire:return"
            /\ \E c \in Callers :
                /\ callers[c].conn = 0
                /\ callers'[c].conn \in Idle
                /\ _used_connections' = _used_connections \cup {callers'[c].conn}
                /\ callers'[c].conn \notin {_pool'[i] : i \in 1..Len(_pool')}
            /\ Len(_pool') = Len(_pool) - 1
            /\ created' = created
        /\ (lastOp' = "acquire:factory" \/ created' /= created) =>
            /\ _pool = <<>>
            /\ Cardinality(_used_connections) < max_connections
        /\ (lastOp' \in AcquireBodyExits /\ _pool = <<>>
                /\ Cardinality(_used_connections) >= max_connections) =>
            /\ lastOp' = "acquire:exhausted"
            /\ _lock' = ""
            /\ \A c \in Callers : callers'[c].pc = callers[c].pc \/ callers'[c].pc = "idle"
        /\ lastOp' \in AcquireFailures =>
            /\ _pool' = _pool
            /\ _used_connections' = _used_connections
            /\ \A c \in Callers : callers'[c].conn = callers[c].conn
      ]_vars

\* the factory has just timed out while another caller holds a connection
C12_Witness ==
    /\ lastOp = "acquire:timeout"
    /\ _used_connections /= {}

\* C13: under any interleaving of acquire and release calls, a second release
\* of a connection that has since been handed to another caller included, no
\* connection is held by two callers at once, no connection is both idle and
\* in use, and no connection appears twice in the idle list.
C13_NoSharedConnection ==
    /\ \A a, b \in Callers :
            (a /= b /\ callers[a].conn /= 0) => callers[a].conn /= callers[b].conn
    /\ Idle \cap _used_connections = {}
    /\ \A i, j \in 1..Len(_pool) : i /= j => _pool[i] /= _pool[j]

\* C14: a connection acquired by with_connection_pool is released exactly once
\* whichever way the operation ends (return, exception, timeout); when
\* with_connection_pool returns or raises, the connection is not in the in-use set.
C14_ReleasedOnExit ==
    wcpRet /= <<>> =>
        /\ wcpRet[1].conn /= 0
        /\ wcpRet[1].conn \notin _used_connections
        /\ wcpRet[1].released = 1

\* with_connection_pool has just raised what the operation raised, its connection idle again
C14_Witness ==
    /\ wcpRet /= <<>>
    /\ wcpRet[1].out = "raise"
    /\ wcpRet[1].conn \in Idle

(***************************************************************************)
(* Properties of the tool registry                                         *)
(***************************************************************************)

\* the elements of a sequence
Elements(seq) == {seq[i] : i \in DOMAIN seq}

\* every tool name a mapping, a chain or a server mentions
ToolNames ==
    UNION ToolLists
        \cup UNION {Elements(tool_mappings[i].primary_tools)
                        \cup Elements(tool_mappings[i].fallback_tools) : i \in DOMAIN tool_mappings}
        \cup UNION {Elements(fallback_chains[t]) : t \in DOMAIN fallback_chains}

\* the servers that advertise the tool
Advertising(tool, stools) == {s \in ServerNames : tool \in stools[s]}

\* arithmetic on fractions <<numerator, denominator>> with positive denominators
FracAdd(a, b) == <<a[1] * b[2] + b[1] * a[2], a[2] * b[2]>>
FracMul(a, b) == <<a[1] * b[1], a[2] * b[2]>>
FracLess(a, b) == a[1] * b[2] < b[1] * a[2]

\* successRate * 0.7 + (1000 / max(avgLatencyMs, 1)) * 0.3, successRate 0.5 without history
ClaimedScore(performance) ==
    LET total == performance.success_count + performance.failure_count
        successRate == IF total = 0 THEN <<1, 2>> ELSE <<performance.success_count, total>>
        avg == performance.avg_response_time_ms
        latency == IF FracLess(avg, <<1, 1>>) THEN <<1, 1>> ELSE avg
    IN  FracAdd(FracMul(successRate, <<7, 10>>),
                FracMul(<<1000 * latency[2], latency[1]>>, <<3, 10>>))

\* x ranks below y: a lower score, or the same score and an older last success
RanksBelow(x, y) ==
    \/ FracLess(ClaimedScore(x), ClaimedScore(y))
    \/ /\ ~FracLess(ClaimedScore(y), ClaimedScore(x))
       /\ x.last_success < y.last_success

\* the servers advertising the tool that no other such server outranks
BestServers(tool, stools, metrics) ==
    {s \in Advertising(tool, stools) :
        \A o \in Advertising(tool, stools) :
            ~RanksBelow(metrics[<<s, tool>>], metrics[<<o, tool>>])}

\* the positions of the list whose tool some server advertises
AdvertisedAt(tool_names, stools) ==
    {i \in DOMAIN tool_names : Advertising(tool_names[i], stools) /= {}}

\* the first tool of the list that some server advertises
FirstAdvertised(tool_names, stools) ==
    tool_names[CHOOSE i \in AdvertisedAt(tool_names, stools) :
                    \A j \in AdvertisedAt(tool_names, stools) : i <= j]

\* the execution under way has come back in this step
ExecutionDone == reg.pc \in {"primary", "fallback"} /\ reg' /= reg

\* C15: when the primary tool fails, execute_with_fallback attempts the tools
\* of its fallback chain in chain order, each on its best server, passing over
\* a tool only when no server has it; it starts no attempt after a success,
\* and the first success is what it returns.
C15_FallbackChainOrder ==
    [][/\ (reg'.pc = "fallback" /\ reg' /= reg) =>
            /\ reg.pc \in {"primary", "fallback"}
            /\ reg'.primary /= <<>>
            /\ ~reg'.primary[1].success
            /\ reg.pc = "primary" => reg'.primary[1].tool_name = reg.tool
            /\ reg.pc = "fallback" => reg'.primary = reg.primary
            /\ reg'.primary[1].tool_name \in DOMAIN fallback_chains
            /\ reg'.idx > reg.idx
            /\ reg'.idx \in DOMAIN fallback_chains[reg'.primary[1].tool_name]
            /\ reg'.tool = fallback_chains[reg'.primary[1].tool_name][reg'.idx]
            /\ \A k \in (reg.idx + 1)..(reg'.idx - 1) :
                    Advertising(fallback_chains[reg'.primary[1].tool_name][k], server_tools') = {}
            /\ reg'.server \in BestServers(reg'.tool, server_tools', performance_metrics')
            /\ performance_metrics'[<<reg.server, reg.tool>>].success_count
                    = performance_metrics[<<reg.server, reg.tool>>].success_count
       /\ (/\ ExecutionDone
           /\ performance_metrics'[<<reg.server, reg.tool>>].success_count
                    > performance_metrics[<<reg.server, reg.tool>>].success_count) =>
            /\ reg'.pc = "idle"
            /\ regRet' /= <<>>
            /\ regRet'[1].response =
                    [success |-> TRUE, tool_name |-> reg.tool,
                     server_name |-> ClientTarget(reg.tool, reg.server)]
      ]_vars

\* execute_with_fallback has just returned the success of a fallback tool
C15_Witness ==
    /\ regRet /= <<>>
    /\ regRet[1].idx > 0
    /\ regRet[1].response.success

\* C16: when the primary tool and every fallback attempted have failed,
\* execute_with_fallback returns the failure response of the last attempt it
\* made, not that of an earlier one.
C16_ReturnsLastFailure ==
    (regRet /= <<>> /\ regRet[1].idx > 0 /\ ~regRet[1].last.success) =>
        regRet[1].response = regRet[1].last

\* C17: select_optimal_tool returns the first primary tool, in mapping order,
\* that a server has, on that tool's best server; a fallback tool, the first
\* that a server has, only when no primary tool has a server; and None only
\* when the intent has no mapping or no server advertises any of its tools.
C17_PrimaryBeforeFallback ==
    \A intent \in Intents :
        LET sel == select_optimal_tool(intent, server_tools, performance_metrics, server_order)
        IN  IF intent \notin DOMAIN tool_mappings THEN sel = <<>>
            ELSE IF AdvertisedAt(tool_mappings[intent].primary_tools, server_tools) /= {}
            THEN /\ sel /= <<>>
                 /\ sel[1].tool_name =
                        FirstAdvertised(tool_mappings[intent].primary_tools, server_tools)
                 /\ sel[1].server_name
                        \in BestServers(sel[1].tool_name, server_tools, performance_metrics)
            ELSE IF AdvertisedAt(tool_mappings[intent].fallback_tools, server_tools) /= {}
            THEN /\ sel /= <<>>
                 /\ sel[1].tool_name =
                        FirstAdvertised(tool_mappings[intent].fallback_tools, server_tools)
                 /\ sel[1].server_name
                        \in BestServers(sel[1].tool_name, server_tools, performance_metrics)
            ELSE sel = <<>>

\* select_optimal_tool has just resolved an intent to a fallback tool, none of
\* its primary tools having a server
C17_Witness ==
    /\ lastOp = "select_optimal_tool"
    /\ \E intent \in DOMAIN tool_mappings :
        /\ AdvertisedAt(tool_mappings[intent].primary_tools, server_tools) = {}
        /\ select_optimal_tool(intent, server_tools, performance_metrics, server_order) /= <<>>

\* C18: on a fixed snapshot of the metrics _find_best_server_for_tool returns,
\* for a tool some server has, a server whose score successRate * 0.7 +
\* (1000 / max(avgLatencyMs, 1)) * 0.3 is maximal, successRate being 0.5
\* without history, and among the servers of maximal score one whose
\* last_success is the most recent; it returns None when no server has the tool.
C18_MaximalScore ==
    \A tool \in ToolNames :
        LET found == _find_best_server_for_tool(tool, server_tools, performance_metrics,
                                                server_order)
        IN  IF Advertising(tool, server_tools) = {} THEN found = <<>>
            ELSE /\ found /= <<>>
                 /\ found[1].tool_name = tool
                 /\ found[1].server_name \in Advertising(tool, server_tools)
                 /\ \A o \in Advertising(tool, server_tools) :
                        ~RanksBelow(performance_metrics[<<found[1].server_name, tool>>],
                                    performance_metrics[<<o, tool>>])

\* two servers have the same score for a tool both have executed, and the one
\* that comes second in server_tools is selected for its more recent success
C18_Witness ==
    /\ lastOp = "select_optimal_tool"
    /\ Len(server_order) = 2
    /\ \E tool \in ToolNames :
        /\ Advertising(tool, server_tools) = ServerNames
        /\ performance_metrics[<<server_order[1], tool>>].success_count > 0
        /\ ~FracLess(ClaimedScore(performance_metrics[<<server_order[1], tool>>]),
                     ClaimedScore(performance_metrics[<<server_order[2], tool>>]))
        /\ ~FracLess(ClaimedScore(performance_metrics[<<server_order[2], tool>>]),
                     ClaimedScore(performance_metrics[<<server_order[1], tool>>]))
        /\ performance_metrics[<<server_order[1], tool>>].last_success
                < performance_metrics[<<server_order[2], tool>>].last_success
        /\ _find_best_server_for_tool(tool, server_tools, performance_metrics, server_order)
                = <<[tool_name |-> tool, server_name |-> server_order[2]]>>

\* C19: whatever discovery runs and health checks have happened, the server
\* select_optimal_tool returns for an intent is enabled and healthy at that moment.
C19_SelectedServerHealthy ==
    \A intent \in Intents :
        LET sel == select_optimal_tool(intent, server_tools, performance_metrics, server_order)
        IN  sel /= <<>> =>
                /\ \E i \in 1..Len(servers) :
                        servers[i].name = sel[1].server_name /\ servers[i].enabled
                /\ server_health[sel[1].server_name]

\* C20: in every ToolPerformance entry success_count and failure_count never
\* decrease; an execution that comes back, with a success, with a failure or
\* by raising, adds exactly 1 to exactly one of the two counts of its entry
\* and changes no other count; no entry is deleted, and discovery leaves the
\* counts of the entries that exist as they are.
C20_CountsOnlyGrow ==
    [][/\ DOMAIN performance_metrics \subseteq DOMAIN performance_metrics'
       /\ \A k \in DOMAIN performance_metrics :
            LET before == performance_metrics[k]
                after == performance_metrics'[k]
            IN  IF ExecutionDone /\ k = <<reg.server, reg.tool>>
                THEN \/ /\ after.success_count = before.success_count + 1
                        /\ after.failure_count = before.failure_count
                     \/ /\ after.success_count = before.success_count
                        /\ after.failure_count = before.failure_count + 1
                ELSE /\ after.success_count = before.success_count
                     /\ after.failure_count = before.failure_count
      ]_vars

\* discovery has just run again over an entry that counts a success and a failure
C20_Witness ==
    /\ lastOp = "discover_tools"
    /\ \E k \in DOMAIN performance_metrics :
        /\ performance_metrics[k].success_count > 0
        /\ performance_metrics[k].failure_count > 0

(***************************************************************************)
(* Properties of the running average                                       *)
(***************************************************************************)

\* C21: after any sequence of executions recorded for a (server, tool) pair
\* the stored avg_response_time_ms is the arithmetic mean of the latencies
\* of all the executions recorded for the pair.
C21_AverageIsMean ==
    latencies.n > 0 =>
        tracked.avg_response_time_ms[1] * latencies.n
            = latencies.sum * tracked.avg_response_time_ms[2]

(***************************************************************************)
(* Properties of failure classification                                    *)
(***************************************************************************)

\* the order of the failure taxonomy
TaxonomyOrder ==
    <<"tool_not_found", "parameter_error", "permission_denied", "timeout", "server_error",
      "network_error", "resource_not_found", "rate_limited">>

\* the places in the taxonomy of the types with a pattern found in the lowered text
TypesFound(text) ==
    {i \in 1..Len(TaxonomyOrder) :
        \E k \in 1..Len(failure_patterns) :
            /\ failure_patterns[k].failure_type = TaxonomyOrder[i]
            /\ PatternMatches(failure_patterns[k], [j \in DOMAIN text |-> lower(text[j])])}

\* C30: an error text is classified as the earliest, in the order
\* tool-not-found, parameter-error, permission-denied, timeout, server-error,
\* network-error, resource-not-found, rate-limited, of the types a pattern of
\* which it matches, and as unknown when it matches no pattern.
C30_FirstMatchInTaxonomyOrder ==
    lastOp = "classify_failure" =>
        failure_type =
            IF TypesFound(error_message) = {} THEN "unknown"
            ELSE TaxonomyOrder[CHOOSE i \in TypesFound(error_message) :
                                    \A j \in TypesFound(error_message) : i <= j]

(***************************************************************************)
(* Properties of schema normalization                                      *)
(***************************************************************************)

\* C29: normalize_tool_schema raises for no raw tool; an object with named
\* fields and a plain mapping are converted, and any other shape, or an
\* object that lacks a field such as its input schema, gives a schema with
\* an empty parameter set.
C29_NormalizeNeverRaises ==
    lastOp = "normalize_tool_schema" =>
        /\ schema.raised = ""
        /\ (\/ raw_tool.shape = "other"
            \/ (raw_tool.shape = "object" /\ "inputSchema" \notin raw_tool.has)) =>
                schema.parameters = {}

\* the Python types a value of a declared type has (a bool is an int)
DeclaredTypes(expected_type) ==
    IF expected_type = "integer" THEN {"int", "bool"}
    ELSE IF expected_type = "boolean" THEN {"bool"}
    ELSE IF expected_type = "number" THEN {"float"}
    ELSE {"str"}

\* the required parameters of the tool that the params of a call lack
MissingIn(params) == {n \in tool_schema.required : params[n] = Absent}

\* C24: for every supplied parameter whose declared type is integer, boolean,
\* number or string, and every value, validation delivers a value of the
\* declared type or reports a parameter error: the arguments a call goes to
\* the transport with have the declared types, and no exception leaves the
\* validation.
C24_DeliversDeclaredType ==
    /\ call.pc = "attempt" =>
            \A n \in DOMAIN tool_schema.parameters :
                call.params[n] /= Absent =>
                    call.arguments[n].type \in DeclaredTypes(tool_schema.parameters[n])
    /\ \A params \in ParamMaps :
            callRet /= <<>> /\ target_server.available /\ callRet[1].params = params =>
                validate_parameters_of(tool_schema, params).raised = ""

\* C27: execute_tool_with_retry never raises past its boundary: every call
\* that is over has returned a NormalizedResponse.
C27_NeverRaises == callRet /= <<>> => callRet[1].raised = ""

\* C22: a call for a tool that has a server, with a required parameter absent
\* from its params, returns a failed response whose error is a parameter
\* error that names every missing parameter.
C22_MissingRequiredReported ==
    callRet /= <<>> /\ target_server.available /\ MissingIn(callRet[1].params) /= {} =>
        /\ callRet[1].raised = ""
        /\ ~callRet[1].success
        /\ callRet[1].error = "validation"
        /\ \A n \in MissingIn(callRet[1].params) :
                <<"missing", n>> \in Elements(callRet[1].errors)

\* C23: within one execution, validation is over before any transport
\* invocation: a call whose validation fails makes no transport invocation, and
\* every transport invocation carries the validated (coerced) parameters.
C23_ValidationBeforeTransport ==
    /\ callRet /= <<>> /\ target_server.available /\ callRet[1].invocations > 0 =>
            validate_parameters_of(tool_schema, callRet[1].params).valid
    /\ call.pc /= "idle" =>
            /\ call.invocations > 0
            /\ validate_parameters_of(tool_schema, call.params).valid
            /\ call.arguments = validate_parameters_of(tool_schema, call.params).converted_params

\* a second transport invocation is under way with the coerced parameters,
\* which are not the ones the caller gave
C23_Witness ==
    /\ call.pc = "attempt"
    /\ call.invocations = 2
    /\ call.params.limit = Value("str", "42")
    /\ call.arguments.limit = Value("int", "42")

\* the transport invocations and the sleeps of a call, within the retry budget:
\* a sleep only between two invocations
WithinBudget(invocations, sleeps) ==
    /\ invocations <= target_server.retry_count
    /\ sleeps <= invocations

\* C25: execute_tool_with_retry always terminates and makes at most
\* retry_count transport invocations per call, for every retry_count >= 0 and
\* every failure pattern; after the last failing attempt it returns the
\* failure with no further backoff sleep.
C25_TerminatesWithinBudget ==
    /\ [](/\ WithinBudget(call.invocations, call.sleeps)
          /\ callRet /= <<>> =>
                /\ WithinBudget(callRet[1].invocations, callRet[1].sleeps)
                /\ callRet[1].invocations > 0 =>
                        callRet[1].sleeps < callRet[1].invocations)
    /\ (call.pc /= "idle") ~> (call.pc = "idle")

\* every attempt of the budget has failed, with a sleep between two attempts
C25_Witness ==
    /\ callRet /= <<>>
    /\ callRet[1].error = "failed_after_attempts"
    /\ callRet[1].invocations = target_server.retry_count
    /\ callRet[1].invocations >= 2
    /\ callRet[1].sleeps = callRet[1].invocations - 1

\* C26: only the transient classes (timeout, network, rate-limited) are
\* retried by execute_tool_with_retry: an attempt that failed with a
\* non-transient class (parameter, permission, not-found) is never followed by
\* a sleep or by another attempt of the same call.
C26_OnlyTransientRetried ==
    call.pc /= "idle" /\ call.raised /= "" => call.raised \in {"timeout", "network", "rate_limited"}

(***************************************************************************)
(* Properties of discover_all_servers                                      *)
(***************************************************************************)
\* C28: in discover_all_servers the failure of one enabled server never fails
\* or truncates the discovery of another: the dict returned holds the full
\* tool list of every server whose discovery succeeded, whatever became of
\* the others; a server whose discovery failed is marked unhealthy; and a
\* disabled server is never contacted.
C28_DiscoveryIsolated ==
    /\ \A s \in contacted : server_enabled[s]
    /\ \A s \in DiscServers :
            /\ discovery.tasks[s] = "failed" => discovery_health[s] = "False"
            /\ discRet /= <<>> /\ discovery.tasks[s] = "ok" =>
                    discRet[1][s] = <<RemoteTools[s]>>

\* discover_all_servers has returned: one server failed, another gave its two
\* tools, a disabled one was left alone
C28_Witness ==
    /\ discRet /= <<>>
    /\ discovery.tasks["d2"] = "failed"
    /\ discovery.tasks["d1"] = "ok"
    /\ discRet[1]["d1"] = <<(<<"build", "status">>)>>
    /\ ~server_enabled["d3"]
    /\ "d3" \notin contacted

(***************************************************************************)
(* Further properties of the cache                                         *)
(***************************************************************************)
\* C39: a set that returns false leaves the stored items, their recency order
\* and the byte total as they were; a set that replaces the value of a key
\* already present, and whose new value fits the byte budget in place of the
\* old one, removes no other key.
C39_FailedSetChangesNothing ==
    [][lastOp' = "set" =>
            /\ ~cacheCall'.ok =>
                    /\ cache' = cache
                    /\ access_order' = access_order
                    /\ size_bytes' = size_bytes
            /\ (/\ cacheCall'.ok
                /\ cacheCall'.key \in DOMAIN cache
                /\ size_bytes - cache[cacheCall'.key].size_bytes
                        + Len(cacheCall'.value[1]) + 2 <= max_size_bytes)
                    => DOMAIN cache' = DOMAIN cache]_vars

(***************************************************************************)
(* Further properties of the connection pool                               *)
(***************************************************************************)
\* C38: once close() has marked the pool closed, no acquire returns a
\* connection, and when close() is over the pool tracks no idle and no
\* in-use connection; this holds for the acquire calls that were waiting for
\* the lock when close ran, too.
C38_ClosedPoolStaysEmpty ==
    _closed =>
        /\ lastOp \notin {"acquire:return", "acquire:created"}
        /\ _lock /= "close" => _pool = <<>> /\ _used_connections = {}

(***************************************************************************)
(* Properties of request batching                                          *)
(***************************************************************************)
\* the batches handed to a processor so far: the ones that are over and the
\* ones being executed
Handed ==
    [i \in 1..Len(batches) |-> [key |-> batches[i].key, items |-> batches[i].items]]
        \o SelectSeq([i \in 1..2 |->
                        [key |-> IF i = 1 THEN "q1" ELSE "q2",
                         items |-> IF processing[IF i = 1 THEN "q1" ELSE "q2"] = <<>> THEN <<>>
                                   ELSE processing[IF i = 1 THEN "q1" ELSE "q2"][1].items]],
                     LAMBDA b : b.items /= <<>>)

\* the number of places item s has in the batches handed to a processor
TimesHanded(s) ==
    Cardinality({<<i, j>> \in (1..Len(Handed)) \X (1.._batch_size) :
                    j <= Len(Handed[i].items) /\ Handed[i].items[j] = s})

\* C33: every item submitted to batched_operation eventually has its pending
\* result resolved, with a value or a failure, whatever the processor does
\* and however submitters and the timeout task interleave.
C33_EveryItemResolved ==
    \A s \in {"a", "b", "c"} :
        (futures[s].state = "pending") ~> (futures[s].state \in {"result", "exception"})

\* C34: each submitted item is passed to the batch processor in exactly one
\* batch (none while it waits in its queue); a batch holds between 1 and
\* batch_size items of a single key in submission order; and when the
\* processor has returned, the i-th item's result is the i-th element of the
\* output, an item with no output element being resolved as a failure.
C34_OneBatchResultByPosition ==
    /\ \A s \in {"a", "b", "c"} :
            TimesHanded(s) =
                IF futures[s].state = "none"
                   \/ \E j \in 1..Len(_batch_queues["q1"] \o _batch_queues["q2"]) :
                            (_batch_queues["q1"] \o _batch_queues["q2"])[j] = s
                THEN 0 ELSE 1
    /\ \A i \in 1..Len(Handed) :
            /\ Len(Handed[i].items) \in 1.._batch_size
            /\ \A j \in 1..Len(Handed[i].items) :
                    /\ futures[Handed[i].items[j]].key = Handed[i].key
                    /\ j > 1 => futures[Handed[i].items[j - 1]].order
                                    < futures[Handed[i].items[j]].order
    /\ \A i \in 1..Len(batches) :
            batches[i].outcome = "return" =>
                \A j \in 1..Len(batches[i].items) :
                    IF j <= Len(batches[i].results)
                    THEN /\ futures[batches[i].items[j]].state = "result"
                         /\ futures[batches[i].items[j]].value = batches[i].results[j]
                    ELSE futures[batches[i].items[j]].state = "exception"

\* a processor was given two items and returned one output, "x": the first
\* item has it, the second is failed
C34_Witness ==
    \E i \in 1..Len(batches) :
        /\ batches[i].outcome = "return"
        /\ Len(batches[i].items) = 2
        /\ batches[i].results = <<"x">>
        /\ futures[batches[i].items[1]].state = "result"
        /\ futures[batches[i].items[1]].value = "x"
        /\ futures[batches[i].items[2]].state = "exception"

BreakerHolds(type) ==
    /\ circuit_breakers[type] /= <<>>
    /\ circuit_breakers[type][1].state = "open"
    /\ now - circuit_breakers[type][1].opened_at[1] <= circuit_breakers[type][1].timeout

\* the breaker of the failure type has gone, or goes with this call, from open to half-open
BreakerProbing(type) ==
    /\ circuit_breakers[type] /= <<>>
    /\ \/ circuit_breakers[type][1].state = "half-open"
       \/ /\ circuit_breakers[type][1].state = "open"
          /\ now - circuit_breakers[type][1].opened_at[1] > circuit_breakers[type][1].timeout

\* C31: when the breaker of the (tool, failure type) key is open and its timeout has
\* not elapsed, handle_failure returns the graceful-degradation action without
\* generating a strategy, and leaves the breaker counters and the recovery history
\* as they were.
C31_OpenBreakerShortCircuits ==
    [][(lastOp' = "handle_failure" /\ BreakerHolds(recRet'[1].failure_type))
            => /\ recRet'[1].action = RecoveryAction("graceful_degradation", 800)
               /\ circuit_breakers' = circuit_breakers
               /\ recovery_history' = recovery_history]_vars

\* a call was short-circuited by a breaker that five failures had opened
C31_Witness ==
    /\ lastOp = "handle_failure"
    /\ recRet /= <<>>
    /\ recRet[1].action = RecoveryAction("graceful_degradation", 800)
    /\ BreakerHolds(recRet[1].failure_type)
    /\ circuit_breakers[recRet[1].failure_type][1].failure_count = 5
    /\ recovery_history[recRet[1].failure_type] = 5

\* C37: once the breaker has moved from open to half-open after its timeout, a further
\* failure (an action with estimated success rate below 0.3) returns it to open.
C37_HalfOpenFailureReopens ==
    [][(/\ lastOp' = "handle_failure"
        /\ BreakerProbing(recRet'[1].failure_type)
        /\ recRet'[1].action.estimated_success_rate < 300)
            => circuit_breakers'[recRet'[1].failure_type][1].state = "open"]_vars

\* C32 as stated: a failure classified unknown gets retry-same at attempt count 0 and
\* abandon at every later attempt, and retry-same is never produced once the attempt
\* count has reached the pattern's max_retries.
C32_UnknownRetriesOnce ==
    [][lastOp' = "handle_failure"
            => /\ recRet'[1].failure_type = "unknown"
                    => IF recRet'[1].attempt_count = 0
                       THEN recRet'[1].action.strategy = "retry_same"
                       ELSE recRet'[1].action.strategy = "abandon_goal"
               /\ recRet'[1].action.strategy = "retry_same"
                    => recRet'[1].attempt_count
                            < _find_recovery_pattern(recRet'[1].failure_type).max_retries]_vars

\* C32, amended: the same, for a call that no open breaker short-circuits.
C32_UnknownRetriesOnceUnlessOpen ==
    [][(lastOp' = "handle_failure" /\ ~BreakerHolds(recRet'[1].failure_type))
            => /\ recRet'[1].failure_type = "unknown"
                    => IF recRet'[1].attempt_count = 0
                       THEN recRet'[1].action.strategy = "retry_same"
                       ELSE recRet'[1].action.strategy = "abandon_goal"
               /\ recRet'[1].action.strategy = "retry_same"
                    => recRet'[1].attempt_count
                            < _find_recovery_pattern(recRet'[1].failure_type).max_retries]_vars

\* an unknown failure was abandoned at its second attempt, after one at its first
C32_Witness ==
    /\ lastOp = "handle_failure"
    /\ recRet /= <<>>
    /\ recRet[1].failure_type = "unknown"
    /\ recRet[1].attempt_count = 1
    /\ recRet[1].action = RecoveryAction("abandon_goal", 0)
    /\ recovery_history["unknown"] = 2
    /\ circuit_breakers["unknown"][1].failure_count = 1

(***************************************************************************)
(* cached_operation claims                                                 *)
(***************************************************************************)
\* C36: cached_operation returns the value of its operation and from then on serves it:
\* a call that finds the key's value in the cache, its ttl not expired, returns that
\* value without invoking the operation; a call raises only when its operation has
\* failed, and a failing operation stores nothing in the cache.
C36_CachedValueServed ==
    [][lastOp' = "cached_operation"
            => /\ (cacheCall'.key \in DOMAIN cache /\ ~is_expired(cache[cacheCall'.key], now))
                    => /\ opRet'[1].outcome = "return"
                       /\ opRet'[1].value = <<cache[cacheCall'.key].value>>
                       /\ ~opRet'[1].invoked
               /\ opRet'[1].outcome = "raise"
                    => (opRet'[1].invoked /\ DOMAIN cache' \subseteq DOMAIN cache)]_vars

(***************************************************************************)
(* Registry and client: where a tracked execution runs                     *)
(***************************************************************************)
\* C40: the ToolPerformance entry of a (server, tool) pair changes only through an
\* execution that ran on that server: the server on which execute_tool_with_retry
\* invokes the tool is the server name the registry passed, also when that server
\* is disabled or unhealthy by then.
C40_TrackedServerRuns ==
    [][(ExecutionDone /\ lastOp' = "attempt")
            => /\ \A k \in DOMAIN performance_metrics :
                    performance_metrics'[k] /= performance_metrics[k]
                        => k = <<reg.server, reg.tool>>
               /\ ClientTarget(reg.tool, reg.server) /= ""
                    => ClientTarget(reg.tool, reg.server) = reg.server]_vars

====
